---- MODULE Spec2Model ----
(***************************************************************************)
(* rusty-picard: an HTTP service that classifies (prefixes of) QPL query   *)
(* plans against registered SQL schemas.  The parser is a winnow           *)
(* combinator parser over Stateful<Partial<&str>, QplEnvironment>; it is   *)
(* modelled character by character.  A parser is an operator from a stream *)
(* to a result [k, s, v]: k is "Ok", "Backtrack" (ErrMode::Backtrack),     *)
(* "Incomplete" (ErrMode::Incomplete), "Cut" (ErrMode::Cut) or "Panic";    *)
(* s is the stream afterwards (winnow's Stateful checkpoints restore the   *)
(* input cursor only, so the environment of a failed parser survives);     *)
(* v is the parsed value.                                                  *)
(***************************************************************************)
EXTENDS Integers, Sequences, FiniteSets, TLC

\* schemas, tokenizer, with_type_checking: the ServerState.  schemas is the
\* HashMap<String, SqlSchema> as the sequence of its entries in iteration order.
\* request: the HTTP request in flight or last served; response: its response,
\* absent while the request is in flight.  Both, and tokenizer, are Options:
\* <<>> is None and <<x>> is Some(x).
\* hasher, parsed: history variables, one element per parse the last handler ran:
\* the RandomState of the parse's idx_to_table and what the parse did.
\* shared_state: the RwLock around the ServerState (who holds it and who awaits
\* it, in order of arrival); tokenizer_mutex: the holder of the tokenizer's Mutex;
\* tasks: for each connection served concurrently, the request and the position
\* of its handler.
VARIABLES schemas, tokenizer, with_type_checking, request, response, hasher, parsed,
          shared_state, tokenizer_mutex, tasks

vars == <<schemas, tokenizer, with_type_checking, request, response, hasher, parsed,
          shared_state, tokenizer_mutex, tasks>>

RECURSIVE parse_elem(_, _)

Min(a, b) == IF a < b THEN a ELSE b

None == "None"

(***************************************************************************)
(* Characters.                                                             *)
(***************************************************************************)
UpperChars == "ABCDEFGHIJKLMNOPQRSTUVWXYZ"

LowerChars == "abcdefghijklmnopqrstuvwxyz"

DigitChars == "0123456789"

CharsOf(str) == {SubSeq(str, i, i) : i \in 1..Len(str)}

Digit == CharsOf(DigitChars)

Multispace == {" ", "\t", "\r", "\n"}

Alphanumeric == CharsOf(UpperChars) \cup CharsOf(LowerChars) \cup Digit

ToLowerTable == [c \in CharsOf(UpperChars) |->
                   LET i == CHOOSE j \in 1..Len(UpperChars) : SubSeq(UpperChars, j, j) = c
                   IN SubSeq(LowerChars, i, i)]

RECURSIVE to_lowercase(_)
to_lowercase(str) ==
    IF str = "" THEN ""
    ELSE LET c == SubSeq(str, 1, 1)
         IN (IF c \in DOMAIN ToLowerTable THEN ToLowerTable[c] ELSE c)
              \o to_lowercase(SubSeq(str, 2, Len(str)))

(***************************************************************************)
(* Results and the stream.                                                 *)
(***************************************************************************)
Ok(s, v) == [k |-> "Ok", s |-> s, v |-> v]

Backtrack(s) == [k |-> "Backtrack", s |-> s, v |-> None]

Incomplete(s) == [k |-> "Incomplete", s |-> s, v |-> None]

Cut(s) == [k |-> "Cut", s |-> s, v |-> None]

Panic(s) == [k |-> "Panic", s |-> s, v |-> None]

eof_offset(s) == Len(s.text) - s.pos

next_slice(s, n) == [s EXCEPT !.pos = s.pos + n]

reset(s, checkpoint) == [s EXCEPT !.pos = checkpoint.pos]

complete(s) == [s EXCEPT !.partial = FALSE]

with_value(r, v) == IF r.k = "Ok" THEN Ok(r.s, v) ELSE r

fail(s) == Backtrack(s)

empty(s) == Ok(s, None)

(***************************************************************************)
(* Token primitives.                                                       *)
(***************************************************************************)
literal(t, s) ==
    LET n == Min(Len(t), eof_offset(s))
    IN IF SubSeq(s.text, s.pos + 1, s.pos + n) # SubSeq(t, 1, n) THEN Backtrack(s)
       ELSE IF eof_offset(s) < Len(t)
            THEN (IF s.partial THEN Incomplete(s) ELSE Backtrack(s))
       ELSE Ok(next_slice(s, Len(t)), t)

Caseless(t, s) ==
    LET n == Min(Len(t), eof_offset(s))
        got == SubSeq(s.text, s.pos + 1, s.pos + n)
    IN IF to_lowercase(got) # to_lowercase(SubSeq(t, 1, n)) THEN Backtrack(s)
       ELSE IF eof_offset(s) < Len(t)
            THEN (IF s.partial THEN Incomplete(s) ELSE Backtrack(s))
       ELSE Ok(next_slice(s, Len(t)), SubSeq(s.text, s.pos + 1, s.pos + Len(t)))

one_of(class, s) ==
    IF eof_offset(s) = 0 THEN (IF s.partial THEN Incomplete(s) ELSE Backtrack(s))
    ELSE LET c == SubSeq(s.text, s.pos + 1, s.pos + 1)
         IN IF c \in class THEN Ok(next_slice(s, 1), c) ELSE Backtrack(s)

RECURSIVE offset_for(_, _, _, _)
offset_for(text, from, class, wanted) ==
    IF from >= Len(text) THEN Len(text)
    ELSE IF (SubSeq(text, from + 1, from + 1) \in class) = wanted
         THEN offset_for(text, from + 1, class, wanted)
         ELSE from

\* take_while with the matching characters ending at offset `end`.
take_to(min, end, s) ==
    IF end = Len(s.text) /\ s.partial THEN Incomplete(s)
    ELSE IF end - s.pos < min THEN Backtrack(s)
    ELSE Ok([s EXCEPT !.pos = end], SubSeq(s.text, s.pos + 1, end))

take_while(min, class, wanted, s) ==
    take_to(min, offset_for(s.text, s.pos, class, wanted), s)

multispace0(s) == take_while(0, Multispace, TRUE, s)

digit1(s) == take_while(1, Digit, TRUE, s)

alphanumeric1(s) == take_while(1, Alphanumeric, TRUE, s)

RECURSIVE decimal(_)
decimal(str) ==
    IF str = "" THEN 0
    ELSE LET last == SubSeq(str, Len(str), Len(str))
             d == CHOOSE j \in 0..9 : SubSeq(DigitChars, j + 1, j + 1) = last
         IN 10 * decimal(SubSeq(str, 1, Len(str) - 1)) + d

\* The digits of `r` as a number.
try_map_decimal(r) == IF r.k = "Ok" THEN Ok(r.s, decimal(r.v)) ELSE r

dec_uint(s) == try_map_decimal(digit1(s))

eof(s) == IF eof_offset(s) = 0 THEN Ok(s, None) ELSE Backtrack(s)

(***************************************************************************)
(* Combinators.  A parser passed to a combinator is a descriptor record    *)
(* [p |-> <name>, ...] that parse_elem runs.                               *)
(***************************************************************************)
P(name) == [p |-> name]

Lit(t) == [p |-> "literal", t |-> t]

CaselessLit(t) == [p |-> "Caseless", t |-> t]

Value(inner, v) == [p |-> "value", inner |-> inner, v |-> v]

Tuple(ps) == [p |-> "tuple", ps |-> ps]

Alt(ps) == [p |-> "alt", ps |-> ps]

RECURSIVE alt_from(_, _, _)
alt_from(ps, i, s) ==
    IF i > Len(ps) THEN Backtrack(s)
    ELSE LET r == parse_elem(ps[i], s)
         IN IF r.k = "Backtrack" THEN alt_from(ps, i + 1, reset(r.s, s)) ELSE r

alt(ps, s) == alt_from(ps, 1, s)

opt(p, s) ==
    LET r == parse_elem(p, s)
    IN IF r.k = "Ok" THEN Ok(r.s, <<r.v>>)
       ELSE IF r.k = "Backtrack" THEN Ok(reset(r.s, s), <<>>)
       ELSE r

RECURSIVE tuple_from(_, _, _, _)
tuple_from(ps, i, acc, s) ==
    IF i > Len(ps) THEN Ok(s, acc)
    ELSE LET r == parse_elem(ps[i], s)
         IN IF r.k = "Ok" THEN tuple_from(ps, i + 1, Append(acc, r.v), r.s) ELSE r

tuple(ps, s) == tuple_from(ps, 1, <<>>, s)

\* repeat(0.., p): stops at the first Backtrack, passes any other error on.
RECURSIVE repeat0(_, _)
repeat0(p, s) ==
    LET r == parse_elem(p, s)
    IN IF r.k = "Ok" THEN repeat0(p, r.s)
       ELSE IF r.k = "Backtrack" THEN Ok(reset(r.s, s), None)
       ELSE r

\* The loop of separated(1.., ..), separated(m..=n, ..): `max` is 0 for no upper bound.
RECURSIVE separated_loop(_, _, _, _, _)
separated_loop(max, p, sep, acc, s) ==
    IF max # 0 /\ Len(acc) >= max THEN Ok(s, acc)
    ELSE LET rs == parse_elem(sep, s)
         IN IF rs.k = "Backtrack" THEN Ok(reset(rs.s, s), acc)
            ELSE IF rs.k # "Ok" THEN rs
            ELSE LET r == parse_elem(p, rs.s)
                 IN IF r.k = "Backtrack" THEN Ok(reset(r.s, s), acc)
                    ELSE IF r.k # "Ok" THEN r
                    ELSE separated_loop(max, p, sep, Append(acc, r.v), r.s)

separated(max, p, sep, s) ==
    LET r == parse_elem(p, s)
    IN IF r.k # "Ok" THEN r ELSE separated_loop(max, p, sep, <<r.v>>, r.s)

\* separated_foldl1: the fold only builds the Predicate tree; the model keeps the
\* comparisons as a list.
separated_foldl1(p, sep, s) == separated(0, p, sep, s)

CommaSep == Tuple(<<P("multispace0"), Lit(", ")>>)

(***************************************************************************)
(* parser/utils.rs                                                         *)
(***************************************************************************)
RECURSIVE insert_by_length(_, _)
insert_by_length(sorted, x) ==
    IF sorted = <<>> THEN <<x>>
    ELSE IF Len(Head(sorted)) >= Len(x)
         THEN <<Head(sorted)>> \o insert_by_length(Tail(sorted), x)
         ELSE <<x>> \o sorted

\* names.sort_unstable_by(cmp_length_desc): slices this short are insertion-sorted,
\* which keeps equal lengths in their order.
RECURSIVE sort_by_cmp_length_desc(_)
sort_by_cmp_length_desc(names) ==
    IF names = <<>> THEN <<>>
    ELSE insert_by_length(sort_by_cmp_length_desc(SubSeq(names, 1, Len(names) - 1)),
                          names[Len(names)])

has_duplicates(items) == \E i, j \in 1..Len(items) : i < j /\ items[i] = items[j]

starts_with(str, prefix) ==
    Len(str) >= Len(prefix) /\ SubSeq(str, 1, Len(prefix)) = prefix

AggValues == <<"Sum", "Min", "Max", "Count", "Avg">>

starts_with_agg(column) ==
    \/ \E i \in 1..Len(AggValues) : starts_with(column, AggValues[i] \o "_")
    \/ starts_with(column, "countstar")

(***************************************************************************)
(* domain.rs                                                               *)
(***************************************************************************)
Dummy == [variant |-> "Dummy"]

Plain(n, t, ks) == [variant |-> "Plain", name |-> n, typ |-> t, keys |-> ks]

Aliased(n, t, ks) == [variant |-> "Aliased", name |-> n, typ |-> t, keys |-> ks]

name(c) == IF c.variant = "Dummy" THEN "1 AS One" ELSE c.name

typ(c) == IF c.variant = "Dummy" THEN "Number" ELSE c.typ

keys(c) == IF c.variant = "Dummy" THEN <<>> ELSE c.keys

PrimaryKey(t) == [kind |-> "PrimaryKey", table |-> t]

ForeignKey(t) == [kind |-> "ForeignKey", table |-> t]

Named(n, cs) == [variant |-> "Named", name |-> n, columns |-> cs]

Indexed(i, cs) == [variant |-> "Indexed", idx |-> i, columns |-> cs]

\* QplState::default(); hash_builder is the RandomState of idx_to_table, kept as the
\* order in which that map iterates over its keys.
QplState(order) ==
    [current_idx |-> 0, seen |-> {}, idx_to_table |-> <<>>, hash_builder |-> order]

\* HashMap::insert
insert(map, key, value) ==
    [i \in DOMAIN map \cup {key} |-> IF i = key THEN value ELSE map[i]]

\* HashMap::values(): the tables in the map's iteration order.
RECURSIVE values_from(_, _)
values_from(state, i) ==
    IF i > Len(state.hash_builder) THEN <<>>
    ELSE (IF state.hash_builder[i] \in DOMAIN state.idx_to_table
          THEN <<state.idx_to_table[state.hash_builder[i]]>> ELSE <<>>)
         \o values_from(state, i + 1)

values(state) == values_from(state, 1)

(***************************************************************************)
(* parser/shared.rs                                                        *)
(***************************************************************************)
\* s.refs is a history field: the (line, #k) references the parser has validated.
note_refs(s, ids) ==
    [s EXCEPT !.refs = @ \cup {<<s.state.state.current_idx, ids[i]>> : i \in 1..Len(ids)}]

RECURSIVE choice_from(_, _, _)
choice_from(choices, i, s) ==
    IF i > Len(choices) THEN fail(s)
    ELSE LET r == opt(CaselessLit(choices[i]), s)
         IN IF r.k # "Ok" THEN r
            ELSE IF r.v # <<>> THEN Ok(r.s, choices[i])
            ELSE choice_from(choices, i + 1, r.s)

choice(choices, s) == choice_from(choices, 1, s)

\* table_name without the sort of the names.
table_name_unsorted(s) == choice(s.state.schema[1].table_names, s)

table_name(s) == choice(sort_by_cmp_length_desc(s.state.schema[1].table_names), s)

column_name(s) == choice(sort_by_cmp_length_desc(s.state.schema[1].column_names), s)

RECURSIVE column_names_of(_)
column_names_of(columns) ==
    IF columns = <<>> THEN <<>>
    ELSE <<name(Head(columns))>> \o column_names_of(Tail(columns))

RECURSIVE flat_column_names(_)
flat_column_names(tables) ==
    IF tables = <<>> THEN <<>>
    ELSE column_names_of(Head(tables).columns) \o flat_column_names(Tail(tables))

aliased_column(s) ==
    LET names == flat_column_names(values(s.state.state))
        previous_aliases == SelectSeq(names, starts_with_agg)
    IN choice(previous_aliases, s)

\* Iterator::position / Iterator::find over the places `hits` where the closure
\* holds: the first of them, 0-based, as an Option.
first_index(hits) ==
    IF hits = {} THEN <<>> ELSE <<(CHOOSE i \in hits : \A j \in hits : i <= j) - 1>>

\* schema.table_names.iter().position(|t| t == table), 0-based.
position(schema, table) ==
    first_index({i \in 1..Len(schema.table_names) : schema.table_names[i] = table})

\* The first column index (0-based) of `table` named `column`, lower-cased.
find_column(schema, t, column) ==
    first_index({i \in 1..Len(schema.column_names) :
                    /\ to_lowercase(schema.column_names[i]) = to_lowercase(column)
                    /\ schema.column_to_table[i] = t})

column_in_table(table, s) ==
    LET r == parse_elem(P("column_name"), s)
    IN IF r.k # "Ok" THEN r
       ELSE LET a == opt(Tuple(<<Lit(" AS "), P("alphanumeric1")>>), r.s)
            IN IF a.k # "Ok" THEN a
               ELSE LET schema == a.s.state.schema[1]
                        t == position(schema, table)
                    IN IF t = <<>> THEN Panic(a.s)
                       ELSE IF find_column(schema, t[1], r.v) # <<>>
                            THEN Ok(a.s, <<r.v, IF a.v = <<>> THEN <<>> ELSE <<a.v[1][2]>>>>)
                            ELSE fail(a.s)

column_in_index(idx, column_parser_type, s) ==
    LET r == IF column_parser_type = "Named" THEN parse_elem(P("column_name"), s)
             ELSE parse_elem(P("aliased_column"), s)
    IN IF r.k # "Ok" THEN r
       ELSE LET state == r.s.state.state
                is_column_in_table ==
                    /\ idx \in DOMAIN state.idx_to_table
                    /\ \E i \in 1..Len(state.idx_to_table[idx].columns) :
                          LET c == state.idx_to_table[idx].columns[i]
                          IN c.variant # "Dummy" /\ r.v = c.name
            IN IF is_column_in_table THEN r ELSE fail(r.s)

ColumnInIndex(idx, kind) == [p |-> "column_in_index", idx |-> idx, kind |-> kind]

contains(items, x) == \E i \in 1..Len(items) : items[i] = x

indexed_column(inputs, s) ==
    LET h == literal("#", s)
    IN IF h.k # "Ok" THEN h
       ELSE LET n == dec_uint(h.s)
            IN IF n.k # "Ok" THEN n
               ELSE IF ~contains(inputs, n.v) THEN fail(n.s)
               ELSE LET d == literal(".", n.s)
                    IN IF d.k # "Ok" THEN d
                       ELSE LET c == alt(<<ColumnInIndex(n.v, "Named"),
                                           ColumnInIndex(n.v, "Aliased")>>, d.s)
                            IN IF c.k # "Ok" THEN c
                               ELSE Ok(note_refs(c.s, <<n.v>>), <<n.v, c.v>>)

IndexedColumn(inputs) == [p |-> "indexed_column", inputs |-> inputs]

comparison_op(s) ==
    alt(<<Lit("<>"), Lit("<="), Lit(">="),
          Value(CaselessLit("is not"), "IS NOT"), Value(CaselessLit("is"), "IS"),
          Value(CaselessLit("like"), "LIKE"), Value(CaselessLit("not like"), "NOT LIKE"),
          Lit("<"), Lit(">"), Lit("=")>>, s)

Sign == [p |-> "one_of", class |-> {"+", "-"}]

\* winnow::ascii::float, recognised: [sign] (digits [. [digits]] | . digits)
\* [(e|E) [sign] cut_err(digits)], or nan, or [sign] infinity, or [sign] inf.
float_exponent(s) ==
    LET e == one_of({"e", "E"}, s)
    IN IF e.k # "Ok" THEN e
       ELSE LET g == opt(Sign, e.s)
            IN IF g.k # "Ok" THEN g
               ELSE LET d == digit1(g.s)
                    IN IF d.k = "Backtrack" THEN Cut(d.s) ELSE d

float_mantissa(s) ==
    alt(<<Tuple(<<P("digit1"), [p |-> "opt", inner |->
                     Tuple(<<Lit("."), [p |-> "opt", inner |-> P("digit1")]>>)]>>),
          Tuple(<<Lit("."), P("digit1")>>)>>, s)

take_float(s) ==
    tuple(<<[p |-> "opt", inner |-> Sign], P("float_mantissa"),
            [p |-> "opt", inner |-> P("float_exponent")]>>, s)

float(s) ==
    alt(<<P("take_float"), CaselessLit("nan"),
          Tuple(<<[p |-> "opt", inner |-> Sign], CaselessLit("infinity")>>),
          Tuple(<<[p |-> "opt", inner |-> Sign], CaselessLit("inf")>>)>>, s)

\* The Comparable values keep their variant and, for a column, its name.
number(s) ==
    LET r == parse_elem(P("float"), s)
    IN IF r.k = "Ok" THEN Ok(r.s, [variant |-> "Number", column |-> ""]) ELSE r

string(s) ==
    LET q == literal("'", s)
    IN IF q.k # "Ok" THEN q
       ELSE LET b == take_while(0, {"'"}, FALSE, q.s)
            IN IF b.k # "Ok" THEN b
               ELSE LET e == literal("'", b.s)
                    IN IF e.k # "Ok" THEN e
                       ELSE Ok(e.s, [variant |-> "Str", column |-> ""])

boolean(s) ==
    with_value(alt(<<Lit("0"), Lit("1")>>, s), [variant |-> "Boolean", column |-> ""])

null(s) == with_value(literal("NULL", s), [variant |-> "Null", column |-> ""])

ComparableColumn(column) == [variant |-> "Column", column |-> column]

single(s) ==
    LET h == literal("#", s)
    IN IF h.k # "Ok" THEN h ELSE dec_uint(h.s)

\* input_ids without the test of `seen`.
input_ids_unchecked(s) ==
    LET o == literal("[ ", s)
    IN IF o.k # "Ok" THEN o
       ELSE LET ids == separated(2, P("single"), CommaSep, o.s)
            IN IF ids.k # "Ok" THEN ids
               ELSE LET c == literal(" ] ", ids.s)
                    IN IF c.k # "Ok" THEN c
                       ELSE Ok(note_refs(c.s, ids.v), ids.v)

input_ids(s) ==
    LET o == literal("[ ", s)
    IN IF o.k # "Ok" THEN o
       ELSE LET ids == separated(2, P("single"), CommaSep, o.s)
            IN IF ids.k # "Ok" THEN ids
               ELSE IF \E i \in 1..Len(ids.v) : ids.v[i] \notin ids.s.state.state.seen
                    THEN fail(ids.s)
               ELSE LET c == literal(" ] ", ids.s)
                    IN IF c.k # "Ok" THEN c
                       ELSE Ok(note_refs(c.s, ids.v), ids.v)

predicate_wrapper(inner, s) ==
    LET o == literal("Predicate [ ", s)
    IN IF o.k # "Ok" THEN o
       ELSE LET q == parse_elem(inner, o.s)
            IN IF q.k # "Ok" THEN q
               ELSE LET c == literal(" ] ", q.s)
                    IN IF c.k # "Ok" THEN c ELSE Ok(c.s, q.v)

PredicateWrapper(inner) == [p |-> "predicate_wrapper", inner |-> inner]

AndOr == Alt(<<Lit(" AND "), Lit(" OR ")>>)

column_type(schema, table, column) ==
    LET t == position(schema, table)
    IN IF t = <<>> THEN <<>>
       ELSE LET c == find_column(schema, t[1], column)
            IN IF c = <<>> THEN <<>> ELSE <<schema.column_types[c[1] + 1]>>

\* The characters of identifiers, in byte order.
AsciiChars == "0123456789ABCDEFGHIJKLMNOPQRSTUVWXYZ_abcdefghijklmnopqrstuvwxyz"

ord(c) == CHOOSE i \in 1..Len(AsciiChars) : SubSeq(AsciiChars, i, i) = c

\* String's Ord: byte-wise lexicographic.
RECURSIVE str_lt(_, _)
str_lt(a, b) ==
    IF b = "" THEN FALSE
    ELSE IF a = "" THEN TRUE
    ELSE IF SubSeq(a, 1, 1) = SubSeq(b, 1, 1)
         THEN str_lt(SubSeq(a, 2, Len(a)), SubSeq(b, 2, Len(b)))
         ELSE ord(SubSeq(a, 1, 1)) < ord(SubSeq(b, 1, 1))

\* fks.sort(); fks.dedup() on ForeignKey values: ascending by table, no repeats.
RECURSIVE sorted_foreign_keys(_)
sorted_foreign_keys(tables) ==
    IF tables = {} THEN <<>>
    ELSE LET least == CHOOSE x \in tables : \A y \in tables : x = y \/ str_lt(x, y)
         IN <<ForeignKey(least)>> \o sorted_foreign_keys(tables \ {least})

\* column_key giving PrimaryKey to the columns on the referencing side of the
\* foreign keys.
column_key_by_referencing_side(schema, table, column) ==
    LET t == position(schema, table)
        c == find_column(schema, t[1], column)
        fks == [i \in 1..Len(schema.foreign_keys) |-> schema.foreign_keys[i][1]]
        pks == [i \in 1..Len(schema.foreign_keys) |-> schema.foreign_keys[i][2]]
    IN IF c = <<>> THEN <<>>
       ELSE LET i == c[1]
                pk == IF contains(schema.primary_keys, i) \/ contains(fks, i)
                      THEN <<PrimaryKey(table)>> ELSE <<>>
                fk == IF contains(fks, i)
                      THEN sorted_foreign_keys(
                               {schema.table_names[schema.column_to_table[pks[j] + 1] + 1] :
                                   j \in 1..Len(pks)})
                      ELSE <<>>
            IN pk \o fk

column_key(schema, table, column) ==
    LET t == position(schema, table)
        c == find_column(schema, t[1], column)
        fks == [i \in 1..Len(schema.foreign_keys) |-> schema.foreign_keys[i][1]]
        pks == [i \in 1..Len(schema.foreign_keys) |-> schema.foreign_keys[i][2]]
    IN IF c = <<>> THEN <<>>
       ELSE LET i == c[1]
                pk == IF contains(schema.primary_keys, i) \/ contains(pks, i)
                      THEN <<PrimaryKey(table)>> ELSE <<>>
                fk == IF contains(fks, i)
                      THEN sorted_foreign_keys(
                               {schema.table_names[schema.column_to_table[pks[j] + 1] + 1] :
                                   j \in 1..Len(pks)})
                      ELSE <<>>
            IN pk \o fk

\* columns.iter().find(|c| c.name() == out).cloned(), as an Option.
get(items, index) == IF index = <<>> THEN <<>> ELSE <<items[index[1] + 1]>>

find_named(columns, out) ==
    get(columns, first_index({i \in 1..Len(columns) : name(columns[i]) = out}))

\* Option::or
or(res, optb) == IF res # <<>> THEN res ELSE optb

\* One output of get_table_from_indexed_outputs / get_output, as an Option<Column>;
\* `tables` are the tables searched in order.
RECURSIVE find_in_tables(_, _)
find_in_tables(tables, out) ==
    IF tables = <<>> THEN <<>>
    ELSE or(find_named(Head(tables).columns, out), find_in_tables(Tail(tables), out))

output_column(tables, out) ==
    IF out = "1 AS One" THEN <<Dummy>>
    ELSE IF out = "countstar AS Count_Star" THEN <<Aliased("Count_Star", "Number", <<>>)>>
    ELSE IF starts_with_agg(out) THEN <<Aliased(out, "Number", <<>>)>>
    ELSE find_in_tables(tables, out)

RECURSIVE flatten(_)
flatten(opts) == IF opts = <<>> THEN <<>> ELSE Head(opts) \o flatten(Tail(opts))

\* collect::<Option<Vec<_>>>() and the match on it: the Indexed table of the columns,
\* or fail when a column is None.
collect_table(columns, s) ==
    IF \E i \in 1..Len(columns) : columns[i] = <<>> THEN fail(s)
    ELSE Ok(s, Indexed(s.state.state.current_idx, flatten(columns)))

get_table_from_indexed_outputs(outs, s) ==
    LET state == s.state.state
        needs == {i \in 1..Len(outs) :
                     /\ outs[i][2] # "1 AS One"
                     /\ outs[i][2] # "countstar AS Count_Star"
                     /\ ~starts_with_agg(outs[i][2])}
    IN IF \E i \in needs : outs[i][1] \notin DOMAIN state.idx_to_table THEN Panic(s)
       ELSE collect_table([i \in 1..Len(outs) |->
                              output_column(IF i \in needs
                                            THEN <<state.idx_to_table[outs[i][1]]>>
                                            ELSE <<>>, outs[i][2])], s)

get_output(inputs, outs, s) ==
    LET state == s.state.state
    IN IF \E i \in 1..Len(inputs) : inputs[i] \notin DOMAIN state.idx_to_table THEN Panic(s)
       ELSE LET prev == [i \in 1..Len(inputs) |-> state.idx_to_table[inputs[i]]]
            IN collect_table([i \in 1..Len(outs) |-> output_column(prev, outs[i])], s)

order_by(input_idx, s) ==
    LET by == alt(<<P("aliased_column"), P("column_name")>>, s)
    IN IF by.k # "Ok" THEN by
       ELSE LET state == by.s.state.state
            IN IF input_idx \notin DOMAIN state.idx_to_table THEN Panic(by.s)
               ELSE IF find_named(state.idx_to_table[input_idx].columns, by.v) = <<>>
                    THEN fail(by.s)
               ELSE LET w == multispace0(by.s)
                    IN IF w.k # "Ok" THEN w
                       ELSE LET dir == alt(<<Lit("ASC"), Lit("DESC")>>, w.s)
                            IN IF dir.k # "Ok" THEN dir
                               ELSE Ok(dir.s, by.v \o " " \o dir.v)

OrderBy(input_idx) == [p |-> "order_by", idx |-> input_idx]

spaced_comparison_op(s) ==
    LET r == tuple(<<P("multispace0"), P("comparison_op"), P("multispace0")>>, s)
    IN IF r.k = "Ok" THEN Ok(r.s, r.v[2]) ELSE r

\* The name list of an output alternative: "1 AS One" alone, or a separated list.
ColumnNameOrAlias == Alt(<<P("column_name"), P("aliased_column")>>)

DistinctFlag == Alt(<<Value(Lit("Distinct [ true ] "), TRUE), Value(P("empty"), FALSE)>>)

\* The alternatives of the type_comparable parsers of scan.rs, filter.rs and join.rs
\* for an LHS of type lhs_type; `column` parses a column of that type.
typed_alternatives(lhs_type, column) ==
    CASE lhs_type = "Number" -> <<P("number"), P("null"), column>>
      [] lhs_type = "Boolean" -> <<P("boolean"), P("null"), column>>
      [] lhs_type = "Text" -> <<P("string"), P("null"), column>>
      [] lhs_type = "Time" -> <<P("string"), P("null"), column>>
      [] lhs_type = "Others" ->
            <<P("number"), P("boolean"), P("string"), P("null"), column>>

\* insert_table putting every table under the index of the first line.
insert_table_at_first_line(s, table) ==
    [s EXCEPT !.state.state.idx_to_table = insert(@, 1, table)]

\* state.idx_to_table.insert(state.current_idx, output_table)
insert_table(s, table) ==
    [s EXCEPT !.state.state.idx_to_table =
                 insert(@, s.state.state.current_idx, table)]

\* The end of an operation whose output table is the result `output_table`: the
\* table is inserted, " ]" is parsed and the operation is the value.
insert_and_close(output_table, operation) ==
    IF output_table.k # "Ok" THEN output_table
    ELSE with_value(literal(" ]", insert_table(output_table.s, output_table.v)), operation)

(***************************************************************************)
(* parser/scan.rs                                                          *)
(***************************************************************************)
scan_column_in_table_of_type(lhs_type, table, s) ==
    LET r == parse_elem(P("column_name"), s)
    IN IF r.k # "Ok" THEN r
       ELSE LET schema == r.s.state.schema[1]
                ti == position(schema, table)
            IN IF ti = <<>> THEN Panic(r.s)
               ELSE IF \E i \in 1..Len(schema.column_names) :
                          /\ schema.column_names[i] = r.v
                          /\ schema.column_to_table[i] = ti[1]
                          /\ schema.column_types[i] = lhs_type
                    THEN Ok(r.s, ComparableColumn(r.v))
                    ELSE fail(r.s)

scan_type_comparable(lhs_type, table, s) ==
    alt(typed_alternatives(lhs_type,
            [p |-> "scan_column_in_table_of_type", typ |-> lhs_type, table |-> table]), s)

scan_comparable(table, s) ==
    alt(<<P("number"), P("boolean"), P("string"), P("null"),
          [p |-> "scan_comparable_column", table |-> table]>>, s)

scan_comparison(wtc, table, s) ==
    LET c == parse_elem([p |-> "column_in_table", table |-> table], s)
    IN IF c.k # "Ok" THEN c
       ELSE LET op == parse_elem(P("spaced_comparison_op"), c.s)
            IN IF op.k # "Ok" THEN op
               ELSE LET t == column_type(op.s.state.schema[1], table, c.v[1])
                        rhs == IF wtc THEN scan_type_comparable(t[1], table, op.s)
                               ELSE scan_comparable(table, op.s)
                    IN IF wtc /\ t = <<>> THEN fail(op.s)
                       ELSE IF rhs.k # "Ok" THEN rhs
                       ELSE Ok(rhs.s, [op |-> op.v, lhs |-> ComparableColumn(c.v[1]),
                                       rhs |-> rhs.v])

scan_predicate(wtc, table, s) ==
    separated_foldl1([p |-> "scan_comparison", wtc |-> wtc, table |-> table], AndOr, s)

\* get_output_table naming every column after the schema column, alias or not.
get_output_table_without_alias(schema, table, outs) ==
    Named(table,
          [i \in 1..Len(outs) |->
              Plain(outs[i][1], column_type(schema, table, outs[i][1])[1],
                    column_key(schema, table, outs[i][1]))])

get_output_table(schema, table, outs) ==
    Named(table,
          [i \in 1..Len(outs) |->
              IF outs[i][1] = "1 AS One" THEN Dummy
              ELSE Plain(IF outs[i][2] # <<>> THEN outs[i][2][1] ELSE outs[i][1],
                         column_type(schema, table, outs[i][1])[1],
                         column_key(schema, table, outs[i][1]))])

scan(wtc, s) ==
    LET h == tuple(<<Lit("Scan Table [ "), P("table_name"), Lit(" ] ")>>, s)
    IN IF h.k # "Ok" THEN h
       ELSE LET table == h.v[2]
                q == tuple(<<[p |-> "opt", inner |-> PredicateWrapper(
                                 [p |-> "scan_predicate", wtc |-> wtc, table |-> table])],
                             DistinctFlag,
                             Lit("Output [ "),
                             Alt(<<Value(Lit("1 AS One"), <<<<"1 AS One", <<>>>>>>),
                                   [p |-> "separated", max |-> 0,
                                    inner |-> [p |-> "column_in_table", table |-> table],
                                    sep |-> CommaSep]>>)>>, h.s)
            IN IF q.k # "Ok" THEN q
               ELSE IF has_duplicates(q.v[4]) THEN fail(q.s)
               ELSE LET output_table == get_output_table(q.s.state.schema[1], table, q.v[4])
                    IN with_value(literal(" ]", insert_table(q.s, output_table)),
                                  [variant |-> "Scan", table |-> table,
                                   predicate |-> q.v[1], is_distinct |-> q.v[2]])

(***************************************************************************)
(* parser/aggregate.rs                                                     *)
(***************************************************************************)
group_by(input_idx, s) ==
    LET r == tuple(<<Lit("GroupBy [ "),
                     [p |-> "separated", max |-> 0,
                      inner |-> ColumnInIndex(input_idx, "Named"), sep |-> CommaSep],
                     Lit(" ] ")>>, s)
    IN IF r.k = "Ok" THEN Ok(r.s, r.v[2]) ELSE r

to_uppercase(str) ==
    CASE str = "Sum" -> "SUM" [] str = "Min" -> "MIN" [] str = "Max" -> "MAX"
      [] str = "Count" -> "COUNT" [] str = "Avg" -> "AVG"

RECURSIVE agg_from(_, _)
agg_from(i, s) ==
    IF i > Len(AggValues) THEN fail(s)
    ELSE LET r == opt(Lit(to_uppercase(AggValues[i])), s)
         IN IF r.k # "Ok" THEN r
            ELSE IF r.v # <<>> THEN Ok(r.s, AggValues[i])
            ELSE agg_from(i + 1, r.s)

agg(s) == agg_from(1, s)

\* aliased_aggregate taking the same alias with and without DISTINCT.
aliased_aggregate_without_dist(input_idx, s) ==
    LET a == tuple(<<P("agg"), Lit("("),
                     Alt(<<Value(Lit("DISTINCT "), TRUE), Value(P("empty"), FALSE)>>),
                     ColumnInIndex(input_idx, "Named"), Lit(") AS ")>>, s)
    IN IF a.k # "Ok" THEN a
       ELSE LET b == tuple(<<Lit(a.v[1] \o "_"), CaselessLit(a.v[4])>>, a.s)
            IN IF b.k # "Ok" THEN b ELSE Ok(b.s, b.v[1] \o b.v[2])

aliased_aggregate(input_idx, s) ==
    LET a == tuple(<<P("agg"), Lit("("),
                     Alt(<<Value(Lit("DISTINCT "), TRUE), Value(P("empty"), FALSE)>>),
                     ColumnInIndex(input_idx, "Named"), Lit(") AS ")>>, s)
    IN IF a.k # "Ok" THEN a
       ELSE LET b == tuple(<<Lit(a.v[1] \o "_"),
                             IF a.v[3] THEN Lit("Dist_") ELSE Value(P("empty"), ""),
                             CaselessLit(a.v[4])>>, a.s)
            IN IF b.k # "Ok" THEN b ELSE Ok(b.s, b.v[1] \o b.v[2] \o b.v[3])

aggregate_outputs(input_idx, s) ==
    separated(0, Alt(<<Lit("countstar AS Count_Star"),
                       [p |-> "aliased_aggregate", idx |-> input_idx],
                       P("column_name")>>), CommaSep, s)

\* The names of the columns of idx_to_table[input_idx] (prev_columns).
prev_columns(inputs, idx_to_table) ==
    UNION {{name(idx_to_table[inputs[i]].columns[j]) :
               j \in 1..Len(idx_to_table[inputs[i]].columns)} : i \in 1..Len(inputs)}

aggregate_validate_output(input_idx, outs, idx_to_table) ==
    LET without_aliases == SelectSeq(outs, LAMBDA out : ~starts_with_agg(out))
        is_subset_of_prev ==
            \A i \in 1..Len(without_aliases) :
                without_aliases[i] \in prev_columns(<<input_idx>>, idx_to_table)
    IN is_subset_of_prev /\ ~has_duplicates(outs)

\* The tail shared by the one-input operations: validate the outputs, build and
\* insert the derived table, parse the closing " ]".
finish_with_get_output(valid, inputs, outs, operation, s) ==
    IF ~valid THEN fail(s) ELSE insert_and_close(get_output(inputs, outs, s), operation)

aggregate(s) ==
    LET h == tuple(<<Lit("Aggregate "), P("input_ids")>>, s)
    IN IF h.k # "Ok" THEN h
       ELSE IF Len(h.v[2]) # 1 THEN fail(h.s)
       ELSE LET input_idx == h.v[2][1]
                q == tuple(<<[p |-> "opt", inner |-> [p |-> "group_by", idx |-> input_idx]],
                             Lit("Output [ "),
                             [p |-> "aggregate_outputs", idx |-> input_idx]>>, h.s)
            IN IF q.k # "Ok" THEN q
               ELSE IF input_idx \notin DOMAIN q.s.state.state.idx_to_table THEN Panic(q.s)
               ELSE finish_with_get_output(
                        aggregate_validate_output(input_idx, q.v[3],
                                                  q.s.state.state.idx_to_table),
                        h.v[2], q.v[3],
                        [variant |-> "Aggregate", input |-> input_idx,
                         group_by |-> IF q.v[1] = <<>> THEN <<>> ELSE q.v[1][1]], q.s)

(***************************************************************************)
(* parser/filter.rs                                                        *)
(***************************************************************************)
filter_column_in_table_of_type(lhs_type, input_idx, s) ==
    LET r == parse_elem(P("column_name"), s)
    IN IF r.k # "Ok" THEN r
       ELSE LET state == r.s.state.state
            IN IF input_idx \notin DOMAIN state.idx_to_table THEN Panic(r.s)
               ELSE IF \E i \in 1..Len(state.idx_to_table[input_idx].columns) :
                          LET c == state.idx_to_table[input_idx].columns[i]
                          IN name(c) = r.v /\ typ(c) = lhs_type
                    THEN Ok(r.s, ComparableColumn(r.v))
                    ELSE fail(r.s)

filter_type_comparable(lhs_type, input_idx, s) ==
    alt(typed_alternatives(lhs_type,
            [p |-> "filter_column_in_table_of_type", typ |-> lhs_type, idx |-> input_idx]), s)

filter_comparable(s) ==
    alt(<<P("number"), P("boolean"), P("string"), P("null"),
          P("comparable_column_name")>>, s)

filter_comparison(wtc, input_idx, s) ==
    LET c == alt(<<ColumnInIndex(input_idx, "Named"), ColumnInIndex(input_idx, "Aliased")>>, s)
    IN IF c.k # "Ok" THEN c
       ELSE LET op == parse_elem(P("spaced_comparison_op"), c.s)
            IN IF op.k # "Ok" THEN op
               ELSE LET found == find_named(op.s.state.state.idx_to_table[input_idx].columns,
                                            c.v)
                        rhs == IF wtc THEN filter_type_comparable(typ(found[1]), input_idx, op.s)
                               ELSE filter_comparable(op.s)
                    IN IF wtc /\ found = <<>> THEN fail(op.s)
                       ELSE IF rhs.k # "Ok" THEN rhs
                       ELSE Ok(rhs.s, [op |-> op.v, lhs |-> ComparableColumn(c.v),
                                       rhs |-> rhs.v])

filter_predicate(wtc, input_idx, s) ==
    separated_foldl1([p |-> "filter_comparison", wtc |-> wtc, idx |-> input_idx], AndOr, s)

filter_validate_output(input_idx, outs, idx_to_table) ==
    LET is_dummy == outs = <<"1 AS One">>
        is_subset_of_prev ==
            \A i \in 1..Len(outs) : outs[i] \in prev_columns(<<input_idx>>, idx_to_table)
    IN ~has_duplicates(outs) /\ (is_subset_of_prev \/ is_dummy)

\* filter taking its first input whatever the number of ids.
filter_any_arity(wtc, s) ==
    LET h == tuple(<<Lit("Filter "), P("input_ids")>>, s)
    IN IF h.k # "Ok" THEN h
       ELSE LET input_idx == h.v[2][1]
                q == tuple(<<[p |-> "opt", inner |-> PredicateWrapper(
                                 [p |-> "filter_predicate", wtc |-> wtc, idx |-> input_idx])],
                             DistinctFlag,
                             Lit("Output [ "),
                             Alt(<<Value(Lit("1 AS One"), <<"1 AS One">>),
                                   [p |-> "separated", max |-> 0,
                                    inner |-> ColumnNameOrAlias, sep |-> CommaSep]>>)>>, h.s)
            IN IF q.k # "Ok" THEN q
               ELSE IF input_idx \notin DOMAIN q.s.state.state.idx_to_table THEN Panic(q.s)
               ELSE finish_with_get_output(
                        filter_validate_output(input_idx, q.v[4],
                                               q.s.state.state.idx_to_table),
                        h.v[2], q.v[4],
                        [variant |-> "Filter", input |-> input_idx,
                         predicate |-> q.v[1], is_distinct |-> q.v[2]], q.s)

filter(wtc, s) ==
    LET h == tuple(<<Lit("Filter "), P("input_ids")>>, s)
    IN IF h.k # "Ok" THEN h
       ELSE IF Len(h.v[2]) # 1 THEN fail(h.s)
       ELSE LET input_idx == h.v[2][1]
                q == tuple(<<[p |-> "opt", inner |-> PredicateWrapper(
                                 [p |-> "filter_predicate", wtc |-> wtc, idx |-> input_idx])],
                             DistinctFlag,
                             Lit("Output [ "),
                             Alt(<<Value(Lit("1 AS One"), <<"1 AS One">>),
                                   [p |-> "separated", max |-> 0,
                                    inner |-> ColumnNameOrAlias, sep |-> CommaSep]>>)>>, h.s)
            IN IF q.k # "Ok" THEN q
               ELSE IF input_idx \notin DOMAIN q.s.state.state.idx_to_table THEN Panic(q.s)
               ELSE finish_with_get_output(
                        filter_validate_output(input_idx, q.v[4],
                                               q.s.state.state.idx_to_table),
                        h.v[2], q.v[4],
                        [variant |-> "Filter", input |-> input_idx,
                         predicate |-> q.v[1], is_distinct |-> q.v[2]], q.s)

(***************************************************************************)
(* parser/top.rs                                                           *)
(***************************************************************************)
top_validate_output(input_idx, outs, idx_to_table) ==
    LET is_subset_of_prev ==
            \A i \in 1..Len(outs) : outs[i] \in prev_columns(<<input_idx>>, idx_to_table)
    IN ~has_duplicates(outs) /\ is_subset_of_prev

top(s) ==
    LET h == tuple(<<Lit("Top "), P("input_ids")>>, s)
    IN IF h.k # "Ok" THEN h
       ELSE IF Len(h.v[2]) # 1 THEN fail(h.s)
       ELSE LET input_idx == h.v[2][1]
                q == tuple(<<Lit("Rows [ "), P("dec_uint"), Lit(" ] Output [ "),
                             [p |-> "separated", max |-> 0,
                              inner |-> ColumnNameOrAlias, sep |-> CommaSep]>>, h.s)
            IN IF q.k # "Ok" THEN q
               ELSE IF input_idx \notin DOMAIN q.s.state.state.idx_to_table THEN Panic(q.s)
               ELSE finish_with_get_output(
                        top_validate_output(input_idx, q.v[4], q.s.state.state.idx_to_table),
                        h.v[2], q.v[4],
                        [variant |-> "Top", input |-> input_idx, rows |-> q.v[2]], q.s)

(***************************************************************************)
(* parser/top_sort.rs                                                      *)
(***************************************************************************)
top_sort_validate_output(input_idx, outs, idx_to_table) ==
    LET is_subset_of_prev ==
            \A i \in 1..Len(outs) : outs[i] \in prev_columns(<<input_idx>>, idx_to_table)
    IN ~has_duplicates(outs) /\ is_subset_of_prev

top_sort(s) ==
    LET h == tuple(<<Lit("TopSort "), P("input_ids")>>, s)
    IN IF h.k # "Ok" THEN h
       ELSE IF Len(h.v[2]) # 1 THEN fail(h.s)
       ELSE LET input_idx == h.v[2][1]
                q == tuple(<<Lit("Rows [ "), P("dec_uint"), Lit(" ] OrderBy [ "),
                             [p |-> "separated", max |-> 0,
                              inner |-> OrderBy(input_idx), sep |-> CommaSep],
                             Lit(" ] "),
                             Alt(<<Value(Lit("WithTies [ true ] "), TRUE),
                                   Value(P("empty"), FALSE)>>),
                             Lit("Output [ "),
                             [p |-> "separated", max |-> 0,
                              inner |-> ColumnNameOrAlias, sep |-> CommaSep]>>, h.s)
            IN IF q.k # "Ok" THEN q
               ELSE IF input_idx \notin DOMAIN q.s.state.state.idx_to_table THEN Panic(q.s)
               ELSE finish_with_get_output(
                        top_sort_validate_output(input_idx, q.v[8],
                                                 q.s.state.state.idx_to_table),
                        h.v[2], q.v[8],
                        [variant |-> "TopSort", input |-> input_idx, rows |-> q.v[2],
                         order_by |-> q.v[4], with_ties |-> q.v[6]], q.s)

(***************************************************************************)
(* parser/join.rs                                                          *)
(***************************************************************************)
is_primary_key_of(key, table) == key.kind = "PrimaryKey" /\ key.table = table

is_foreign_key_of(key, table) == key.kind = "ForeignKey" /\ key.table = table

\* decider is "is_primary_key_of" or "is_foreign_key_of".
comparable_key_and_type(input_idxs, lhs_type, lhs_table, decider, s) ==
    LET r == parse_elem(IndexedColumn(input_idxs), s)
    IN IF r.k # "Ok" THEN r
       ELSE LET t == r.s.state.state.idx_to_table[r.v[1]]
                is_column_in_table_of_type_and_key ==
                    \E i \in 1..Len(t.columns) :
                        LET c == t.columns[i]
                        IN /\ name(c) = r.v[2]
                           /\ typ(c) = lhs_type
                           /\ \E j \in 1..Len(keys(c)) :
                                 IF decider = "is_primary_key_of"
                                 THEN is_primary_key_of(keys(c)[j], lhs_table)
                                 ELSE is_foreign_key_of(keys(c)[j], lhs_table)
            IN IF is_column_in_table_of_type_and_key
               THEN Ok(r.s, ComparableColumn(r.v[2]))
               ELSE fail(r.s)

ComparableKeyAndType(input_idxs, lhs_type, lhs_table, decider) ==
    [p |-> "comparable_key_and_type", inputs |-> input_idxs, typ |-> lhs_type,
     table |-> lhs_table, decider |-> decider]

\* p1 of comparable_key: the loop over lhs_keys from the i-th key on.
RECURSIVE comparable_key_p1(_, _, _, _, _)
comparable_key_p1(input_idxs, lhs_type, lhs_keys, i, s) ==
    IF i > Len(lhs_keys) THEN fail(s)
    ELSE LET key == lhs_keys[i]
             r == IF key.kind = "PrimaryKey"
                  THEN opt(ComparableKeyAndType(input_idxs, lhs_type, key.table,
                                                "is_foreign_key_of"), s)
                  ELSE opt(Alt(<<ComparableKeyAndType(input_idxs, lhs_type, key.table,
                                                      "is_foreign_key_of"),
                                 ComparableKeyAndType(input_idxs, lhs_type, key.table,
                                                      "is_primary_key_of")>>), s)
         IN IF r.k # "Ok" THEN r
            ELSE IF r.v # <<>> THEN Ok(r.s, r.v[1])
            ELSE comparable_key_p1(input_idxs, lhs_type, lhs_keys, i + 1, r.s)

\* p2 of comparable_key; a column that is not Aliased reaches todo!() unless an
\* earlier column already satisfied any().
comparable_key_p2(input_idxs, lhs_type, s) ==
    LET r == parse_elem(IndexedColumn(input_idxs), s)
    IN IF r.k # "Ok" THEN r
       ELSE LET t == r.s.state.state.idx_to_table[r.v[1]]
                hits == {i \in 1..Len(t.columns) :
                            /\ t.columns[i].variant = "Aliased"
                            /\ name(t.columns[i]) = r.v[2]
                            /\ typ(t.columns[i]) = lhs_type}
                todos == {i \in 1..Len(t.columns) : t.columns[i].variant # "Aliased"}
            IN IF \E i \in todos : \A j \in hits : i < j THEN Panic(r.s)
               ELSE IF hits # {} THEN Ok(r.s, ComparableColumn(r.v[2]))
               ELSE fail(r.s)

comparable_key(input_idxs, lhs_type, lhs_keys, s) ==
    alt(<<[p |-> "comparable_key_p1", inputs |-> input_idxs, typ |-> lhs_type,
           keys |-> lhs_keys],
          [p |-> "comparable_key_p2", inputs |-> input_idxs, typ |-> lhs_type]>>, s)

join_column_in_index_of_type(lhs_type, input_idxs, s) ==
    LET r == parse_elem(IndexedColumn(input_idxs), s)
    IN IF r.k # "Ok" THEN r
       ELSE LET table == r.s.state.state.idx_to_table[r.v[1]]
            IN IF \E i \in 1..Len(table.columns) :
                     name(table.columns[i]) = r.v[2] /\ typ(table.columns[i]) = lhs_type
               THEN Ok(r.s, ComparableColumn(r.v[2]))
               ELSE fail(r.s)

join_type_comparable(input_idxs, lhs_type, s) ==
    alt(typed_alternatives(lhs_type,
            [p |-> "join_column_in_index_of_type", typ |-> lhs_type,
             inputs |-> input_idxs]), s)

\* indexed_column(input_idxs).map(|(_, column)| Comparable::Column(column))
indexed_comparable_column(input_idxs, s) ==
    LET r == parse_elem(IndexedColumn(input_idxs), s)
    IN IF r.k # "Ok" THEN r ELSE Ok(r.s, ComparableColumn(r.v[2]))

join_comparable(input_idxs, s) ==
    alt(<<P("number"), P("boolean"), P("string"), P("null"),
          [p |-> "indexed_comparable_column", inputs |-> input_idxs]>>, s)

join_comparison(wtc, input_idxs, s) ==
    LET c == parse_elem(IndexedColumn(input_idxs), s)
    IN IF c.k # "Ok" THEN c
       ELSE LET op == parse_elem(P("spaced_comparison_op"), c.s)
            IN IF op.k # "Ok" THEN op
               ELSE LET lhs_data == find_named(
                            op.s.state.state.idx_to_table[c.v[1]].columns, c.v[2])
                        is_aliased == lhs_data[1].variant = "Aliased"
                        rhs == IF ~wtc THEN join_comparable(input_idxs, op.s)
                               ELSE IF op.v = "=" /\ ~is_aliased
                               THEN comparable_key(input_idxs, typ(lhs_data[1]),
                                                   keys(lhs_data[1]), op.s)
                               ELSE join_type_comparable(input_idxs, typ(lhs_data[1]), op.s)
                    IN IF wtc /\ lhs_data = <<>> THEN fail(op.s)
                       ELSE IF rhs.k # "Ok" THEN rhs
                       ELSE Ok(rhs.s, [op |-> op.v, lhs |-> ComparableColumn(c.v[2]),
                                       rhs |-> rhs.v])

join_predicate(wtc, input_idxs, s) ==
    separated_foldl1([p |-> "join_comparison", wtc |-> wtc, inputs |-> input_idxs],
                     AndOr, s)

\* validate_output of join.rs, except.rs and union.rs compare (index, name) pairs.
RECURSIVE seconds(_)
seconds(pairs) ==
    IF pairs = <<>> THEN <<>> ELSE <<Head(pairs)[2]>> \o seconds(Tail(pairs))

join_validate_output(inputs, outs, idx_to_table) ==
    LET columns == seconds(outs)
        is_dummy == columns = <<"1 AS One">>
        is_subset_of_prev ==
            \A i \in 1..Len(columns) : columns[i] \in prev_columns(inputs, idx_to_table)
    IN ~has_duplicates(outs) /\ (is_subset_of_prev \/ is_dummy)

\* The tail shared by the two-input operations: validate the outputs, build and
\* insert the derived table, parse the closing " ]".
finish_with_indexed_outputs(valid, outs, operation, s) ==
    IF ~valid THEN fail(s)
    ELSE insert_and_close(get_table_from_indexed_outputs(outs, s), operation)

\* The outputs of join and except: "1 AS One" with index usize::MAX, or a list.
IndexedOutputs(inputs) ==
    Alt(<<Value(Lit("1 AS One"), <<<<"usize::MAX", "1 AS One">>>>),
          [p |-> "separated", max |-> 0, inner |-> IndexedColumn(inputs),
           sep |-> CommaSep]>>)

join(wtc, s) ==
    LET h == tuple(<<Lit("Join "), P("input_ids")>>, s)
    IN IF h.k # "Ok" THEN h
       ELSE IF Len(h.v[2]) # 2 THEN fail(h.s)
       ELSE LET inputs == h.v[2]
                q == tuple(<<[p |-> "opt", inner |-> PredicateWrapper(
                                 [p |-> "join_predicate", wtc |-> wtc, inputs |-> inputs])],
                             DistinctFlag,
                             Lit("Output [ "),
                             IndexedOutputs(inputs)>>, h.s)
            IN IF q.k # "Ok" THEN q
               ELSE IF \E i \in 1..2 : inputs[i] \notin DOMAIN q.s.state.state.idx_to_table
                    THEN Panic(q.s)
               ELSE finish_with_indexed_outputs(
                        join_validate_output(inputs, q.v[4], q.s.state.state.idx_to_table),
                        q.v[4],
                        [variant |-> "Join", inputs |-> inputs,
                         predicate |-> q.v[1], is_distinct |-> q.v[2]], q.s)

(***************************************************************************)
(* parser/except.rs                                                        *)
(***************************************************************************)
except_columns(input_idxs, s) ==
    LET r == tuple(<<Lit("ExceptColumns [ "), IndexedColumn(input_idxs), Lit(" ] ")>>, s)
    IN IF r.k # "Ok" THEN r
       ELSE Ok(r.s, [variant |-> "ExceptColum", column |-> r.v[2][2]])

except_column_in_index_of_type(lhs_type, input_idxs, s) ==
    LET r == parse_elem(IndexedColumn(input_idxs), s)
    IN IF r.k # "Ok" THEN r
       ELSE LET table == r.s.state.state.idx_to_table[r.v[1]]
            IN IF \E i \in 1..Len(table.columns) :
                     name(table.columns[i]) = r.v[2] /\ typ(table.columns[i]) = lhs_type
               THEN Ok(r.s, ComparableColumn(r.v[2]))
               ELSE fail(r.s)

except_type_comparable(input_idxs, lhs_type, s) ==
    alt(<<P("null"),
          [p |-> "except_column_in_index_of_type", typ |-> lhs_type,
           inputs |-> input_idxs]>>, s)

except_comparable(input_idxs, s) ==
    alt(<<P("number"), P("boolean"), P("string"), P("null"),
          [p |-> "indexed_comparable_column", inputs |-> input_idxs]>>, s)

except_comparison(wtc, input_idxs, s) ==
    LET c == parse_elem(IndexedColumn(input_idxs), s)
    IN IF c.k # "Ok" THEN c
       ELSE LET op == parse_elem(P("spaced_comparison_op"), c.s)
            IN IF op.k # "Ok" THEN op
               ELSE LET found == find_named(
                            op.s.state.state.idx_to_table[c.v[1]].columns, c.v[2])
                        rhs == IF wtc
                               THEN except_type_comparable(input_idxs, typ(found[1]), op.s)
                               ELSE except_comparable(input_idxs, op.s)
                    IN IF wtc /\ found = <<>> THEN fail(op.s)
                       ELSE IF rhs.k # "Ok" THEN rhs
                       ELSE Ok(rhs.s, [op |-> op.v, lhs |-> ComparableColumn(c.v[2]),
                                       rhs |-> rhs.v])

except_predicate(wtc, input_idxs, s) ==
    separated_foldl1([p |-> "except_comparison", wtc |-> wtc, inputs |-> input_idxs],
                     AndOr, s)

except_validate_output(inputs, outs, idx_to_table) ==
    LET columns == seconds(outs)
        is_dummy == columns = <<"1 AS One">>
        is_subset_of_prev ==
            \A i \in 1..Len(columns) : columns[i] \in prev_columns(inputs, idx_to_table)
    IN ~has_duplicates(outs) /\ (is_subset_of_prev \/ is_dummy)

except(wtc, s) ==
    LET h == tuple(<<Lit("Except "), P("input_ids")>>, s)
    IN IF h.k # "Ok" THEN h
       ELSE IF Len(h.v[2]) # 2 THEN fail(h.s)
       ELSE LET inputs == h.v[2]
                q == tuple(<<Alt(<<PredicateWrapper([p |-> "except_predicate", wtc |-> wtc,
                                                     inputs |-> inputs]),
                                   [p |-> "except_columns", inputs |-> inputs]>>),
                             DistinctFlag,
                             Lit("Output [ "),
                             IndexedOutputs(inputs)>>, h.s)
            IN IF q.k # "Ok" THEN q
               ELSE IF \E i \in 1..2 : inputs[i] \notin DOMAIN q.s.state.state.idx_to_table
                    THEN Panic(q.s)
               ELSE finish_with_indexed_outputs(
                        except_validate_output(inputs, q.v[4], q.s.state.state.idx_to_table),
                        q.v[4],
                        [variant |-> "Except", inputs |-> inputs,
                         operator |-> q.v[1], is_distinct |-> q.v[2]], q.s)

(***************************************************************************)
(* parser/union.rs                                                         *)
(***************************************************************************)
union_validate_output(inputs, outs, idx_to_table) ==
    LET columns == seconds(outs)
        is_dummy == columns = <<"1 AS One">>
        is_subset_of_prev ==
            \A i \in 1..Len(columns) : columns[i] \in prev_columns(inputs, idx_to_table)
    IN ~has_duplicates(outs) /\ (is_subset_of_prev \/ is_dummy)

union(s) ==
    LET h == tuple(<<Lit("Union "), P("input_ids")>>, s)
    IN IF h.k # "Ok" THEN h
       ELSE IF Len(h.v[2]) # 2 THEN fail(h.s)
       ELSE LET inputs == h.v[2]
                q == tuple(<<Lit("Output [ "),
                             [p |-> "separated", max |-> 0, inner |-> IndexedColumn(inputs),
                              sep |-> CommaSep]>>, h.s)
            IN IF q.k # "Ok" THEN q
               ELSE IF \E i \in 1..2 : inputs[i] \notin DOMAIN q.s.state.state.idx_to_table
                    THEN Panic(q.s)
               ELSE finish_with_indexed_outputs(
                        union_validate_output(inputs, q.v[2], q.s.state.state.idx_to_table),
                        q.v[2], [variant |-> "Union", inputs |-> inputs], q.s)

(***************************************************************************)
(* The Sort and Intersect parsers (parser/sort.rs, parser/intersect.rs),   *)
(* after the operation grammar: Sort is TopSort without Rows and WithTies  *)
(* and with an optional Distinct; Intersect has the shape of Join.         *)
(***************************************************************************)
sort(s) ==
    LET h == tuple(<<Lit("Sort "), P("input_ids")>>, s)
    IN IF h.k # "Ok" THEN h
       ELSE IF Len(h.v[2]) # 1 THEN fail(h.s)
       ELSE LET input_idx == h.v[2][1]
                q == tuple(<<DistinctFlag,
                             Lit("OrderBy [ "),
                             [p |-> "separated", max |-> 0,
                              inner |-> OrderBy(input_idx), sep |-> CommaSep],
                             Lit(" ] Output [ "),
                             [p |-> "separated", max |-> 0,
                              inner |-> ColumnNameOrAlias, sep |-> CommaSep]>>, h.s)
            IN IF q.k # "Ok" THEN q
               ELSE IF input_idx \notin DOMAIN q.s.state.state.idx_to_table THEN Panic(q.s)
               ELSE finish_with_get_output(
                        top_sort_validate_output(input_idx, q.v[5],
                                                 q.s.state.state.idx_to_table),
                        h.v[2], q.v[5],
                        [variant |-> "Sort", input |-> input_idx, order_by |-> q.v[3],
                         is_distinct |-> q.v[1]], q.s)

intersect(wtc, s) ==
    LET h == tuple(<<Lit("Intersect "), P("input_ids")>>, s)
    IN IF h.k # "Ok" THEN h
       ELSE IF Len(h.v[2]) # 2 THEN fail(h.s)
       ELSE LET inputs == h.v[2]
                q == tuple(<<[p |-> "opt", inner |-> PredicateWrapper(
                                 [p |-> "join_predicate", wtc |-> wtc, inputs |-> inputs])],
                             DistinctFlag,
                             Lit("Output [ "),
                             IndexedOutputs(inputs)>>, h.s)
            IN IF q.k # "Ok" THEN q
               ELSE IF \E i \in 1..2 : inputs[i] \notin DOMAIN q.s.state.state.idx_to_table
                    THEN Panic(q.s)
               ELSE finish_with_indexed_outputs(
                        join_validate_output(inputs, q.v[4], q.s.state.state.idx_to_table),
                        q.v[4],
                        [variant |-> "Intersect", inputs |-> inputs,
                         predicate |-> q.v[1], is_distinct |-> q.v[2]], q.s)

(***************************************************************************)
(* parser.rs                                                               *)
(***************************************************************************)
\* usize's Display, as format!("#{} = ", current_idx) uses it.
RECURSIVE to_string(_)
to_string(n) ==
    IF n < 10 THEN SubSeq(DigitChars, n + 1, n + 1)
    ELSE to_string(n \div 10) \o SubSeq(DigitChars, (n % 10) + 1, (n % 10) + 1)

\* qpl_line without `input.state.state.current_idx += 1`.
qpl_line_keeping_current_idx(wtc, s) ==
    LET current_idx == s.state.state.current_idx + 1
        h == literal("#" \o to_string(current_idx) \o " = ", s)
    IN IF h.k # "Ok" THEN h
       ELSE LET operation ==
                    alt(<<[p |-> "scan", wtc |-> wtc], P("aggregate"),
                          [p |-> "filter", wtc |-> wtc], P("top"), P("sort"),
                          P("top_sort"), [p |-> "join", wtc |-> wtc],
                          [p |-> "intersect", wtc |-> wtc],
                          [p |-> "except", wtc |-> wtc], P("union")>>, h.s)
            IN IF operation.k # "Ok" THEN operation
               ELSE Ok([operation.s EXCEPT !.state.state.seen = @ \cup {current_idx}],
                       [idx |-> current_idx, operation |-> operation.v])

qpl_line(wtc, s) ==
    LET current_idx == s.state.state.current_idx + 1
        h == literal("#" \o to_string(current_idx) \o " = ", s)
    IN IF h.k # "Ok" THEN h
       ELSE LET operation ==
                    alt(<<[p |-> "scan", wtc |-> wtc], P("aggregate"),
                          [p |-> "filter", wtc |-> wtc], P("top"), P("sort"),
                          P("top_sort"), [p |-> "join", wtc |-> wtc],
                          [p |-> "intersect", wtc |-> wtc],
                          [p |-> "except", wtc |-> wtc], P("union")>>,
                        [h.s EXCEPT !.state.state.current_idx = @ + 1])
            IN IF operation.k # "Ok" THEN operation
               ELSE Ok([operation.s EXCEPT !.state.state.seen = @ \cup {current_idx}],
                       [idx |-> current_idx, operation |-> operation.v])

qpl(wtc, s) ==
    LET r == tuple(<<[p |-> "separated", max |-> 0,
                      inner |-> [p |-> "qpl_line", wtc |-> wtc], sep |-> Lit(" ; ")],
                     P("eof")>>, s)
    IN IF r.k # "Ok" THEN r ELSE Ok(r.s, r.v[1])

(***************************************************************************)
(* parser/api.rs.  `registry` is the HashMap<String, SqlSchema> of the     *)
(* server as the sequence of its (db_id, schema) entries in the order the  *)
(* map iterates over them.                                                 *)
(***************************************************************************)
special_token(s) ==
    with_value(tuple(<<Lit("<"), Alt(<<Lit("pad"), Lit("s"), Lit("/s")>>), Lit(">")>>, s),
               None)

\* schemas.sort_unstable_by_key(|(db_id, _)| db_id.chars().count()): ascending by
\* length; slices this short are insertion-sorted, equal lengths keep their order.
RECURSIVE insert_by_key(_, _)
insert_by_key(sorted, x) ==
    IF sorted = <<>> THEN <<x>>
    ELSE IF Len(Head(sorted).db_id) <= Len(x.db_id)
         THEN <<Head(sorted)>> \o insert_by_key(Tail(sorted), x)
         ELSE <<x>> \o sorted

RECURSIVE sort_by_key(_)
sort_by_key(entries) ==
    IF entries = <<>> THEN <<>>
    ELSE insert_by_key(sort_by_key(SubSeq(entries, 1, Len(entries) - 1)),
                       entries[Len(entries)])

reverse(entries) == [i \in 1..Len(entries) |-> entries[Len(entries) + 1 - i]]

RECURSIVE schema_from(_, _, _)
schema_from(entries, i, s) ==
    IF i > Len(entries) THEN fail(s)
    ELSE LET r == opt(CaselessLit(entries[i].db_id), s)
         IN IF r.k # "Ok" THEN r
            ELSE IF r.v # <<>> THEN Ok(r.s, entries[i].schema)
            ELSE schema_from(entries, i + 1, r.s)

\* schema trying the db_ids in the order the map iterates over them.
schema_in_map_order(registry, s) == schema_from(registry, 1, s)

schema(registry, s) == schema_from(reverse(sort_by_key(registry)), 1, s)

prefixed_qpl(registry, wtc, s) ==
    LET a == multispace0(s)
    IN IF a.k # "Ok" THEN a
       ELSE LET b == repeat0(P("special_token"), a.s)
            IN IF b.k # "Ok" THEN b
               ELSE LET c == multispace0(b.s)
                    IN IF c.k # "Ok" THEN c
                       ELSE LET d == schema(registry, c.s)
                            IN IF d.k # "Ok" THEN d
                               ELSE LET e == tuple(<<P("multispace0"), Lit("|"),
                                                     P("multispace0")>>,
                                                   [d.s EXCEPT !.state.schema = <<d.v>>])
                                    IN IF e.k # "Ok" THEN e ELSE qpl(wtc, e.s)

(***************************************************************************)
(* Running a parser description.                                           *)
(***************************************************************************)
parse_elem(d, s) ==
    CASE d.p = "literal" -> literal(d.t, s)
      [] d.p = "Caseless" -> Caseless(d.t, s)
      [] d.p = "value" -> with_value(parse_elem(d.inner, s), d.v)
      [] d.p = "tuple" -> tuple(d.ps, s)
      [] d.p = "alt" -> alt(d.ps, s)
      [] d.p = "opt" -> opt(d.inner, s)
      [] d.p = "separated" -> separated(d.max, d.inner, d.sep, s)
      [] d.p = "one_of" -> one_of(d.class, s)
      [] d.p = "multispace0" -> multispace0(s)
      [] d.p = "digit1" -> digit1(s)
      [] d.p = "alphanumeric1" -> alphanumeric1(s)
      [] d.p = "dec_uint" -> dec_uint(s)
      [] d.p = "empty" -> empty(s)
      [] d.p = "eof" -> eof(s)
      [] d.p = "number" -> number(s)
      [] d.p = "null" -> null(s)
      [] d.p = "boolean" -> boolean(s)
      [] d.p = "string" -> string(s)
      [] d.p = "single" -> single(s)
      [] d.p = "column_name" -> column_name(s)
      [] d.p = "comparable_column_name" ->
            LET r == column_name(s)
            IN IF r.k # "Ok" THEN r ELSE Ok(r.s, ComparableColumn(r.v))
      [] d.p = "aliased_column" -> aliased_column(s)
      [] d.p = "table_name" -> table_name(s)
      [] d.p = "comparison_op" -> comparison_op(s)
      [] d.p = "spaced_comparison_op" -> spaced_comparison_op(s)
      [] d.p = "float" -> float(s)
      [] d.p = "float_mantissa" -> float_mantissa(s)
      [] d.p = "float_exponent" -> float_exponent(s)
      [] d.p = "take_float" -> take_float(s)
      [] d.p = "input_ids" -> input_ids(s)
      [] d.p = "column_in_index" -> column_in_index(d.idx, d.kind, s)
      [] d.p = "indexed_column" -> indexed_column(d.inputs, s)
      [] d.p = "indexed_comparable_column" -> indexed_comparable_column(d.inputs, s)
      [] d.p = "predicate_wrapper" -> predicate_wrapper(d.inner, s)
      [] d.p = "order_by" -> order_by(d.idx, s)
      [] d.p = "column_in_table" -> column_in_table(d.table, s)
      [] d.p = "scan_column_in_table_of_type" ->
            scan_column_in_table_of_type(d.typ, d.table, s)
      [] d.p = "scan_comparable_column" ->
            LET r == column_in_table(d.table, s)
            IN IF r.k # "Ok" THEN r ELSE Ok(r.s, ComparableColumn(r.v[1]))
      [] d.p = "scan_comparison" -> scan_comparison(d.wtc, d.table, s)
      [] d.p = "scan_predicate" -> scan_predicate(d.wtc, d.table, s)
      [] d.p = "agg" -> agg(s)
      [] d.p = "group_by" -> group_by(d.idx, s)
      [] d.p = "aliased_aggregate" -> aliased_aggregate(d.idx, s)
      [] d.p = "aggregate_outputs" -> aggregate_outputs(d.idx, s)
      [] d.p = "filter_column_in_table_of_type" ->
            filter_column_in_table_of_type(d.typ, d.idx, s)
      [] d.p = "filter_comparison" -> filter_comparison(d.wtc, d.idx, s)
      [] d.p = "filter_predicate" -> filter_predicate(d.wtc, d.idx, s)
      [] d.p = "comparable_key_and_type" ->
            comparable_key_and_type(d.inputs, d.typ, d.table, d.decider, s)
      [] d.p = "comparable_key_p1" -> comparable_key_p1(d.inputs, d.typ, d.keys, 1, s)
      [] d.p = "comparable_key_p2" -> comparable_key_p2(d.inputs, d.typ, s)
      [] d.p = "join_column_in_index_of_type" ->
            join_column_in_index_of_type(d.typ, d.inputs, s)
      [] d.p = "join_comparison" -> join_comparison(d.wtc, d.inputs, s)
      [] d.p = "join_predicate" -> join_predicate(d.wtc, d.inputs, s)
      [] d.p = "except_columns" -> except_columns(d.inputs, s)
      [] d.p = "except_column_in_index_of_type" ->
            except_column_in_index_of_type(d.typ, d.inputs, s)
      [] d.p = "except_comparison" -> except_comparison(d.wtc, d.inputs, s)
      [] d.p = "except_predicate" -> except_predicate(d.wtc, d.inputs, s)
      [] d.p = "scan" -> scan(d.wtc, s)
      [] d.p = "aggregate" -> aggregate(s)
      [] d.p = "filter" -> filter(d.wtc, s)
      [] d.p = "top" -> top(s)
      [] d.p = "sort" -> sort(s)
      [] d.p = "top_sort" -> top_sort(s)
      [] d.p = "join" -> join(d.wtc, s)
      [] d.p = "intersect" -> intersect(d.wtc, s)
      [] d.p = "except" -> except(d.wtc, s)
      [] d.p = "union" -> union(s)
      [] d.p = "qpl_line" -> qpl_line(d.wtc, s)
      [] d.p = "special_token" -> special_token(s)
      [] d.p = "prefixed_qpl" -> prefixed_qpl(d.registry, d.wtc, s)

\* Parser::parse_next on the parser `d` describes.
parse_next(d, s) == parse_elem(d, s)

PrefixedQpl(registry, wtc) == [p |-> "prefixed_qpl", registry |-> registry, wtc |-> wtc]

(***************************************************************************)
(* Bounds and the inputs of the model.                                     *)
(***************************************************************************)
\* Rows of a /parse batch; candidates of a row; the keys 1..MaxIdx a RandomState
\* orders (the programs below have MaxIdx + 1 lines at most, and the table of a
\* program's last line is inserted after the last iteration over the map).
MaxBatch == 2

MaxTop == 2

MaxIdx == 3

SchemaD ==
    [db_id |-> "d", table_names |-> <<"t", "tu">>,
     column_names |-> <<"a", "ab", "a">>,
     column_types |-> <<"Number", "Text", "Number">>,
     column_to_table |-> <<0, 0, 1>>,
     foreign_keys |-> <<<<2, 0>>>>, primary_keys |-> <<0>>]

SchemaE ==
    [db_id |-> "e", table_names |-> <<"t">>, column_names |-> <<"a">>,
     column_types |-> <<"Number">>, column_to_table |-> <<0>>,
     foreign_keys |-> <<>>, primary_keys |-> <<0>>]

SchemaPool == {SchemaD, SchemaE}

\* A tokenizer is its vocabulary: token id i decodes to Vocab[i + 1].
EOS == "</s>"

ScanLine == "d | #1 = Scan Table [ t ] Output [ a , ab ]"

AliasLines ==
    " ; #2 = Aggregate [ #1 ] Output [ MAX(a) AS Max_a ]"
    \o " ; #3 = Aggregate [ #1 ] Output [ MAX(ab) AS Max_ab ]"
    \o " ; #4 = Top [ #3 ] Rows [ 1 ] Output [ Max_ab "

Closing == "]"

RepeatedLine == " ; #1 = Scan Table [ t ] Output [ a ]"

RenamedScan == "d | #1 = Scan Table [ t ] Output [ a AS x , ab AS x ]"

Vocab == <<EOS, ScanLine, AliasLines, Closing, RepeatedLine, RenamedScan>>

\* Bodies of /tokenizer requests: a tokenizer's JSON, or text that is not one.
TokenizerPool == {[vocab |-> <<Vocab>>], [vocab |-> <<>>]}

\* input_ids rows and top_tokens candidates of /parse requests.
InputIdsPool == {<<1>>, <<1, 2, 3>>}

TopTokenPool == {0, 2}

\* qpl strings of /validate requests.
QplPool ==
    {"", ScanLine, "<s> " \o ScanLine, ScanLine \o AliasLines,
     ScanLine \o AliasLines \o Closing, ScanLine \o RepeatedLine, RenamedScan}

RECURSIVE SeqsUpTo(_, _)
SeqsUpTo(S, n) ==
    IF n = 0 THEN {<<>>}
    ELSE LET shorter == SeqsUpTo(S, n - 1)
         IN shorter \cup {Append(q, x) : q \in {r \in shorter : Len(r) = n - 1}, x \in S}

\* The orders in which a HashMap<usize, Table> can iterate over the keys 1..MaxIdx.
RandomStates == {q \in SeqsUpTo(1..MaxIdx, MaxIdx) :
                    Len(q) = MaxIdx /\ \A i, j \in 1..MaxIdx : i # j => q[i] # q[j]}

Requests ==
    {[route |-> "/schema", schema |-> x] : x \in SchemaPool}
    \cup {[route |-> "/tokenizer", tokenizer_repr |-> x] : x \in TokenizerPool}
    \cup {[route |-> "/validate", qpl |-> x] : x \in QplPool}
    \cup {[route |-> "/parse", input_ids |-> x, top_tokens |-> y] :
             x \in SeqsUpTo(InputIdsPool, MaxBatch),
             y \in SeqsUpTo(SeqsUpTo(TopTokenPool, MaxTop), MaxBatch)}

(***************************************************************************)
(* main.rs                                                                 *)
(***************************************************************************)
ServerState ==
    [tokenizer |-> tokenizer, schemas |-> schemas,
     with_type_checking |-> with_type_checking]

\* A stream over the environment an earlier parse of one line has left.
Stream_after_a_line(text, hash_builder) ==
    [text |-> text, pos |-> 0, partial |-> TRUE,
     state |-> [state |-> [current_idx |-> 1, seen |-> {1}, idx_to_table |-> <<>>,
                           hash_builder |-> hash_builder],
                schema |-> <<>>],
     refs |-> {}]

\* Stream { input: Partial::new(text), state: QplEnvironment { QplState::default(),
\* schema: None } }
Stream(text, hash_builder) ==
    [text |-> text, pos |-> 0, partial |-> TRUE,
     state |-> [state |-> QplState(hash_builder), schema |-> <<>>], refs |-> {}]

\* Tokenizer::decode(input_ids, false): the pieces of the ids, concatenated.
RECURSIVE decode(_, _)
decode(vocab, ids) ==
    IF ids = <<>> THEN ""
    ELSE vocab[Head(ids) + 1] \o decode(vocab, Tail(ids))

detokenize(ids, tok) == decode(tok, ids)

\* Tokenizer::from_str: Some(tokenizer), or None for text that is no tokenizer.
from_str(tokenizer_repr) == tokenizer_repr.vocab

ends_with(str, suffix) ==
    Len(str) >= Len(suffix) /\ SubSeq(str, Len(str) - Len(suffix) + 1, Len(str)) = suffix

strip_suffix(str, suffix) ==
    IF ends_with(str, suffix) THEN SubSeq(str, 1, Len(str) - Len(suffix)) ELSE str

\* parser_input without the handling of the end-of-sequence marker.
parser_input_keeping_marker(ids, token, state, hash_builder) ==
    Stream(detokenize(Append(ids, token), state.tokenizer[1]), hash_builder)

\* The stream feed hands to the parser.
parser_input(ids, token, state, hash_builder) ==
    LET decoded == detokenize(Append(ids, token), state.tokenizer[1])
        input == Stream(strip_suffix(decoded, EOS), hash_builder)
    IN IF ends_with(decoded, EOS) THEN complete(input) ELSE input

\* feed with the Incomplete arm of its match missing.
feed_without_partial(ids, token, state, hash_builder) ==
    LET r == parse_next(PrefixedQpl(state.schemas, state.with_type_checking),
                        parser_input(ids, token, state, hash_builder))
    IN CASE r.k = "Ok" -> "Complete"
         [] r.k = "Panic" -> "Panic"
         [] OTHER -> "Failure"

\* The match of feed on the parser's result.
FeedResult(r) ==
    CASE r.k = "Ok" -> "Complete"
      [] r.k = "Incomplete" -> "Partial"
      [] r.k = "Panic" -> "Panic"
      [] OTHER -> "Failure"

feed(ids, token, state, hash_builder) ==
    FeedResult(parse_next(PrefixedQpl(state.schemas, state.with_type_checking),
                          parser_input(ids, token, state, hash_builder)))

\* The (batch_id, inputs, token) triplets of batch_feed: zip stops at the shorter of
\* top_tokens and input_ids; batch_id counts from 0.
RECURSIVE triplets_from(_, _, _)
triplets_from(ids, top_tokens, i) ==
    IF i > Min(Len(ids), Len(top_tokens)) THEN <<>>
    ELSE [j \in 1..Len(top_tokens[i]) |->
             [batch_id |-> i - 1, inputs |-> ids[i], t |-> top_tokens[i][j]]]
         \o triplets_from(ids, top_tokens, i + 1)

\* batch_feed numbering the triplets instead of the rows.
batch_feed_counting_triplets(ids, top_tokens, state, hashers) ==
    LET triplets == triplets_from(ids, top_tokens, 1)
    IN [k \in 1..Len(triplets) |->
           [batch_id |-> k - 1, top_token |-> triplets[k].t,
            feed_result |-> feed(triplets[k].inputs, triplets[k].t, state, hashers[k])]]

\* hashers[k] is the RandomState of the k-th triplet's parse; collect_into_vec keeps
\* the triplets' order.
batch_feed(ids, top_tokens, state, hashers) ==
    LET triplets == triplets_from(ids, top_tokens, 1)
    IN [k \in 1..Len(triplets) |->
           [batch_id |-> triplets[k].batch_id, top_token |-> triplets[k].t,
            feed_result |-> feed(triplets[k].inputs, triplets[k].t, state, hashers[k])]]

\* What one parse did, for the history variable `parsed`.
RECURSIVE idxs(_)
idxs(lines) == IF lines = <<>> THEN <<>> ELSE <<Head(lines).idx>> \o idxs(Tail(lines))

observe(input, r) ==
    [text |-> input.text, partial |-> input.partial, k |-> r.k,
     lines |-> IF r.k = "Ok" THEN idxs(r.v) ELSE <<>>,
     refs |-> r.s.refs, idx_to_table |-> r.s.state.state.idx_to_table]

\* One RandomState for each way the parse of `input` can go: hash orders under
\* which the parse does the same are not told apart.
representatives(run) ==
    {CHOOSE h \in DOMAIN run : run[h] = o : o \in {run[h] : h \in DOMAIN run}}

distinct_hashers(registry, wtc, input) ==
    representatives([h \in RandomStates |->
                        observe(input,
                                parse_next(PrefixedQpl(registry, wtc),
                                           [input EXCEPT !.state.state.hash_builder = h]))])

RECURSIVE product(_)
product(sets) ==
    IF sets = <<>> THEN {<<>>}
    ELSE {<<x>> \o q : x \in Head(sets), q \in product(Tail(sets))}

\* The connections served at the same time.
MaxConnections == 2

Connections == 1..MaxConnections

\* RwLock::new(state): nobody holds the lock, nobody awaits it.
RwLock == [readers |-> {}, writer |-> <<>>, waiters |-> <<>>]

\* A connection without a request.
Idle == [pc |-> "idle", request |-> <<>>, snapshot |-> <<>>, decoded |-> <<>>,
         results |-> <<>>]

(***************************************************************************)
(* The server: a request arrives, then its handler runs to completion      *)
(* (handlers take the state's RwLock).                                     *)
(***************************************************************************)
Init ==
    /\ schemas = <<>>
    /\ tokenizer = <<>>
    /\ with_type_checking = FALSE
    /\ request = <<>>
    /\ response = <<>>
    /\ hasher = <<>>
    /\ parsed = <<>>
    /\ shared_state = RwLock
    /\ tokenizer_mutex = <<>>
    /\ tasks = [c \in Connections |-> Idle]

Arrive ==
    /\ request = <<>>
    /\ \E req \in Requests : request' = <<req>>
    /\ UNCHANGED <<schemas, tokenizer, with_type_checking, response, hasher, parsed>>
    /\ UNCHANGED <<shared_state, tokenizer_mutex, tasks>>

\* The response is sent and the connection is done with.
Reply ==
    /\ request # <<>> /\ response # <<>>
    /\ request' = <<>>
    /\ response' = <<>>
    /\ hasher' = <<>>
    /\ parsed' = <<>>
    /\ UNCHANGED <<schemas, tokenizer, with_type_checking>>
    /\ UNCHANGED <<shared_state, tokenizer_mutex, tasks>>

Handling(route) == request # <<>> /\ response = <<>> /\ request[1].route = route

\* register_schema keeping the schema registered first under a db_id.
register_schema_keeping_first ==
    /\ Handling("/schema")
    /\ LET db_id == request[1].schema.db_id
           entry == [db_id |-> db_id, schema |-> request[1].schema]
       IN IF \E i \in 1..Len(schemas) : schemas[i].db_id = db_id
          THEN schemas' = schemas
          ELSE \E i \in 0..Len(schemas) :
                  schemas' = SubSeq(schemas, 1, i) \o <<entry>>
                             \o SubSeq(schemas, i + 1, Len(schemas))
    /\ response' = <<[status |-> "Ok"]>>
    /\ UNCHANGED <<tokenizer, with_type_checking, request, hasher, parsed>>
    /\ UNCHANGED <<shared_state, tokenizer_mutex, tasks>>

\* HashMap::insert: an entry with this db_id is replaced in place; a new entry
\* lands wherever its hash puts it.
register_schema ==
    /\ Handling("/schema")
    /\ LET db_id == request[1].schema.db_id
           at == {i \in 1..Len(schemas) : schemas[i].db_id = db_id}
           entry == [db_id |-> db_id, schema |-> request[1].schema]
       IN IF at # {}
          THEN schemas' = [schemas EXCEPT ![CHOOSE i \in at : TRUE] = entry]
          ELSE \E i \in 0..Len(schemas) :
                  schemas' = SubSeq(schemas, 1, i) \o <<entry>>
                             \o SubSeq(schemas, i + 1, Len(schemas))
    /\ response' = <<[status |-> "Ok"]>>
    /\ UNCHANGED <<tokenizer, with_type_checking, request, hasher, parsed>>
    /\ UNCHANGED <<shared_state, tokenizer_mutex, tasks>>

\* Tokenizer::from_str(..).unwrap() panics on text that is no tokenizer, before the
\* tokenizer's mutex is taken: the connection is closed and the state is as before.
register_tokenizer ==
    /\ Handling("/tokenizer")
    /\ LET parsed_repr == from_str(request[1].tokenizer_repr)
       IN IF parsed_repr = <<>>
          THEN /\ response' = <<[status |-> "Panic"]>>
               /\ UNCHANGED tokenizer
          ELSE /\ tokenizer' = parsed_repr
               /\ response' = <<[status |-> "Ok"]>>
    /\ UNCHANGED <<schemas, with_type_checking, request, hasher, parsed>>
    /\ UNCHANGED <<shared_state, tokenizer_mutex, tasks>>

\* The match of validate_qpl on the result of the parse of `input` under the
\* RandomState h, and the handler's answer.
validate_qpl_match(h, input, result) ==
    /\ response' = <<[status |-> "Ok",
                      body |-> IF result.k = "Ok" THEN [tag |-> "valid"]
                               ELSE [tag |-> "invalid", reason |-> "Failed to parse"]]>>
    /\ hasher' = <<h>>
    /\ parsed' = <<observe(input, result)>>

\* validate_qpl without `input.complete()`.
validate_qpl_on_partial_stream ==
    /\ Handling("/validate")
    /\ \E h \in distinct_hashers(schemas, with_type_checking,
                                 Stream(request[1].qpl, <<>>)) :
          validate_qpl_match(h, Stream(request[1].qpl, h),
                             parse_next(PrefixedQpl(schemas, with_type_checking),
                                        Stream(request[1].qpl, h)))
    /\ UNCHANGED <<schemas, tokenizer, with_type_checking, request>>
    /\ UNCHANGED <<shared_state, tokenizer_mutex, tasks>>

validate_qpl ==
    /\ Handling("/validate")
    /\ \E h \in distinct_hashers(schemas, with_type_checking,
                                 complete(Stream(request[1].qpl, <<>>))) :
          validate_qpl_match(h, complete(Stream(request[1].qpl, h)),
                             parse_next(PrefixedQpl(schemas, with_type_checking),
                                        complete(Stream(request[1].qpl, h))))
    /\ UNCHANGED <<schemas, tokenizer, with_type_checking, request>>
    /\ UNCHANGED <<shared_state, tokenizer_mutex, tasks>>

\* parse_qpl answering an empty batch result when no tokenizer is registered.
parse_qpl_without_error ==
    /\ Handling("/parse")
    /\ IF tokenizer = <<>>
       THEN /\ response' = <<[status |-> "Ok", body |-> <<>>]>>
            /\ UNCHANGED <<hasher, parsed>>
       ELSE LET triplets == triplets_from(request[1].input_ids, request[1].top_tokens, 1)
                inputs == [k \in 1..Len(triplets) |->
                              parser_input(triplets[k].inputs, triplets[k].t,
                                           ServerState, <<>>)]
            IN \E hashers \in product([k \in 1..Len(triplets) |->
                                  distinct_hashers(schemas, with_type_checking,
                                                   inputs[k])]) :
                  /\ response' = <<[status |-> "Ok",
                                    body |-> batch_feed(request[1].input_ids,
                                                 request[1].top_tokens, ServerState,
                                                 hashers)]>>
                  /\ hasher' = hashers
                  /\ parsed' = [k \in 1..Len(triplets) |->
                                   LET input == [inputs[k] EXCEPT
                                                    !.state.state.hash_builder = hashers[k]]
                                   IN observe(input,
                                              parse_next(PrefixedQpl(schemas,
                                                                     with_type_checking),
                                                         input))]
    /\ UNCHANGED <<schemas, tokenizer, with_type_checking, request>>
    /\ UNCHANGED <<shared_state, tokenizer_mutex, tasks>>

parse_qpl ==
    /\ Handling("/parse")
    /\ IF tokenizer = <<>>
       THEN /\ response' = <<[status |-> "Err", body |-> "Tokenizer not registered"]>>
            /\ UNCHANGED <<hasher, parsed>>
       ELSE LET triplets == triplets_from(request[1].input_ids, request[1].top_tokens, 1)
                inputs == [k \in 1..Len(triplets) |->
                              parser_input(triplets[k].inputs, triplets[k].t,
                                           ServerState, <<>>)]
            IN \E hashers \in product([k \in 1..Len(triplets) |->
                                  distinct_hashers(schemas, with_type_checking,
                                                   inputs[k])]) :
                  /\ response' = <<[status |-> "Ok",
                                    body |-> batch_feed(request[1].input_ids,
                                                 request[1].top_tokens, ServerState,
                                                 hashers)]>>
                  /\ hasher' = hashers
                  /\ parsed' = [k \in 1..Len(triplets) |->
                                   LET input == [inputs[k] EXCEPT
                                                    !.state.state.hash_builder = hashers[k]]
                                   IN observe(input,
                                              parse_next(PrefixedQpl(schemas,
                                                                     with_type_checking),
                                                         input))]
    /\ UNCHANGED <<schemas, tokenizer, with_type_checking, request>>
    /\ UNCHANGED <<shared_state, tokenizer_mutex, tasks>>

Next ==
    \/ Arrive
    \/ register_schema
    \/ register_tokenizer
    \/ validate_qpl
    \/ parse_qpl
    \/ Reply

Spec == Init /\ [][Next]_vars

(***************************************************************************)
(* The parsers called directly, as the crate's tests call them: a stream   *)
(* is built around a text and an environment, marked complete or not, and  *)
(* handed to parse_next of a parser.  Here the request is the call and the *)
(* response is its result; the server's state plays no part.               *)
(***************************************************************************)
SchemaDD == [SchemaE EXCEPT !.db_id = "dd"]

SchemaUpperD == [SchemaE EXCEPT !.db_id = "D"]

RECURSIVE Orders(_)
Orders(S) ==
    IF S = {} THEN {<<>>}
    ELSE UNION {{<<x>> \o q : q \in Orders(S \ {x})} : x \in S}

\* The registries over the schemas of S, each in every iteration order.
Registries(S) ==
    UNION {Orders({[db_id |-> x.db_id, schema |-> x] : x \in T}) : T \in SUBSET S}

\* get_input of the tests, with the environment `env` and the completion flag.
get_input(text, env, is_partial) ==
    [text |-> text, pos |-> 0, partial |-> is_partial, state |-> env, refs |-> {}]

DefaultEnvironment == [state |-> QplState(<<>>), schema |-> <<>>]

PrefixedTexts ==
    {"dd | #1 = Scan Table [ t ] Output [ a ]", "Dd | #1 = Scan Table [ t ] Output [ a ]",
     "d | #1 = Scan Table [ t ] Output [ a ]", "<s> dd | #1 = Scan Table [ t ] Output [ a ]",
     "x | #1 = Scan Table [ t ] Output [ a ]", "d"}

PrefixedCalls ==
    {[route |-> "parse_next", parser |-> PrefixedQpl(registry, wtc),
      input |-> get_input(text, DefaultEnvironment, is_partial)] :
        registry \in Registries({SchemaD, SchemaDD, SchemaUpperD}),
        wtc \in {FALSE}, text \in PrefixedTexts, is_partial \in BOOLEAN}

\* An environment as the tests set it up: a schema, the lines seen and their tables.
Environment(sql_schema, seen, idx_to_table) ==
    [state |-> [QplState(<<>>) EXCEPT !.seen = seen, !.idx_to_table = idx_to_table,
                                     !.current_idx = Cardinality(seen)],
     schema |-> <<sql_schema>>]

TableNameCalls ==
    {[route |-> "parse_next", parser |-> P("table_name"),
      input |-> get_input(text, Environment([SchemaD EXCEPT !.table_names = names],
                                            {}, <<>>), is_partial)] :
        names \in {<<"t", "tu">>, <<"tu", "t">>, <<"t">>, <<"t", "Tu", "tuv">>},
        text \in {"tu ]", "TU ]", "t ]", "t", "tu", "x ]", "", "tuv ]"},
        is_partial \in BOOLEAN}
    \cup {[route |-> "parse_next",
           parser |-> PrefixedQpl(<<[db_id |-> "d", schema |-> SchemaD]>>, FALSE),
           input |-> get_input("d | #1 = Scan Table [ tu ] Output [ a ]",
                               DefaultEnvironment, FALSE)]}

\* A schema with one table whose columns have the five column types.
SchemaTyped ==
    [db_id |-> "s", table_names |-> <<"t">>,
     column_names |-> <<"n", "b", "x", "m", "o">>,
     column_types |-> <<"Number", "Boolean", "Text", "Time", "Others">>,
     column_to_table |-> <<0, 0, 0, 0, 0>>,
     foreign_keys |-> <<>>, primary_keys |-> <<0>>]

ScanTyped(idx) == "#" \o idx \o " = Scan Table [ t ] Output [ n , b , x , m , o ]"

\* The right-hand sides tried: literals with the kinds of literal they are, and the
\* columns of SchemaTyped.
RightHandSides ==
    {[text |-> "1.5", kinds |-> {"number"}, column |-> FALSE],
     [text |-> "1", kinds |-> {"number", "boolean"}, column |-> FALSE],
     [text |-> "'x'", kinds |-> {"string"}, column |-> FALSE],
     [text |-> "NULL", kinds |-> {"null"}, column |-> FALSE]}
    \cup {[text |-> SchemaTyped.column_names[i], kinds |-> {}, column |-> TRUE] :
             i \in 1..Len(SchemaTyped.column_names)}

\* A program whose last line is the operation `op` with the predicate lhs < rhs.
TypedProgram(op, lhs, rhs) ==
    CASE op = "Scan" ->
            "s | #1 = Scan Table [ t ] Predicate [ " \o lhs \o " < " \o rhs.text
            \o " ] Output [ n ]"
      [] op = "Filter" ->
            "s | " \o ScanTyped("1") \o " ; #2 = Filter [ #1 ] Predicate [ " \o lhs
            \o " < " \o rhs.text \o " ] Output [ n ]"
      [] op \in {"Join", "Except"} ->
            "s | " \o ScanTyped("1") \o " ; " \o ScanTyped("2") \o " ; #3 = " \o op
            \o " [ #1, #2 ] Predicate [ #1." \o lhs \o " < "
            \o (IF rhs.column THEN "#2." ELSE "") \o rhs.text \o " ] Output [ #1.n ]"

TypedCalls ==
    {[route |-> "parse_next",
      parser |-> PrefixedQpl(<<[db_id |-> "s", schema |-> SchemaTyped]>>, TRUE),
      input |-> get_input(TypedProgram(op, SchemaTyped.column_names[i], rhs),
                          DefaultEnvironment, FALSE),
      operation |-> op, lhs |-> i, rhs |-> rhs] :
        op \in {"Scan", "Filter", "Join", "Except"},
        i \in 1..Len(SchemaTyped.column_names), rhs \in RightHandSides}

\* The inputs of the joins tried, each with the columns its line derives from
\* SchemaD: #1 is always a scan of t, #2 is one of SecondInputs.
Derived(column, type, column_keys, is_aliased) ==
    [name |-> column, typ |-> type, keys |-> column_keys, aliased |-> is_aliased]

FirstInput ==
    [line |-> "Scan Table [ t ] Output [ a , ab ]",
     columns |-> <<Derived("a", "Number", {[kind |-> "PrimaryKey", table |-> "t"]}, FALSE),
                   Derived("ab", "Text", {}, FALSE)>>]

SecondInputs ==
    {[line |-> "Scan Table [ tu ] Output [ a ]",
      columns |-> <<Derived("a", "Number", {[kind |-> "ForeignKey", table |-> "t"]},
                            FALSE)>>],
     [line |-> "Aggregate [ #1 ] Output [ countstar AS Count_Star ]",
      columns |-> <<Derived("Count_Star", "Number", {}, TRUE)>>],
     [line |-> "Aggregate [ #1 ] GroupBy [ a ] Output [ countstar AS Count_Star , a ]",
      columns |-> <<Derived("Count_Star", "Number", {}, TRUE),
                    FirstInput.columns[1]>>],
     [line |-> "Aggregate [ #1 ] GroupBy [ a ] Output [ a , countstar AS Count_Star ]",
      columns |-> <<FirstInput.columns[1],
                    Derived("Count_Star", "Number", {}, TRUE)>>]}

Reference(idx, column) == "#" \o idx \o "." \o column.name

JoinKeyProgram(second, lhs, rhs) ==
    "d | #1 = " \o FirstInput.line \o " ; #2 = " \o second.line
    \o " ; #3 = Join [ #1, #2 ] Predicate [ " \o lhs \o " = " \o rhs
    \o " ] Output [ #1.a ]"

\* The columns of the two inputs, each as <<index, columns, position>>.
InputColumns(second) ==
    {x \in {<<t[1], t[2], i>> :
                t \in {<<"1", FirstInput.columns>>, <<"2", second.columns>>},
                i \in 1..2} : x[3] <= Len(x[2])}

JoinKeyCallsOn(second) ==
    {[route |-> "parse_next",
      parser |-> PrefixedQpl(<<[db_id |-> "d", schema |-> SchemaD]>>, TRUE),
      input |-> get_input(JoinKeyProgram(second,
                                         Reference(l[1], l[2][l[3]]),
                                         Reference(r[1], r[2][r[3]])),
                          DefaultEnvironment, FALSE),
      sharpening |-> [lhs |-> l[2][l[3]], rhs |-> r[2][r[3]], rhs_table |-> r[2]]] :
        l \in {x \in InputColumns(second) : ~x[2][x[3]].aliased},
        r \in InputColumns(second)}

JoinKeyCalls == UNION {JoinKeyCallsOn(second) : second \in SecondInputs}

\* "[ #1, #2 ] " for the ids <<1, 2>>, with `sep` between two ids.
RECURSIVE IdsList(_, _)
IdsList(ids, sep) ==
    IF ids = <<>> THEN ""
    ELSE "#" \o SubSeq(DigitChars, ids[1] + 1, ids[1] + 1)
         \o (IF Len(ids) > 1 THEN sep ELSE "") \o IdsList(Tail(ids), sep)

MaxIds == 3

IdLists == UNION {[1..n -> 1..MaxIdx] : n \in 0..MaxIds}

InputIdsCalls ==
    {[route |-> "parse_next", parser |-> P("input_ids"),
      input |-> get_input("[ " \o IdsList(ids, sep) \o " ] ",
                          Environment(SchemaE, 1..n, <<>>), is_partial),
      ids |-> ids] :
        ids \in IdLists, sep \in {", ", " , "}, n \in 0..2, is_partial \in BOOLEAN}

\* A schema with a column whose name starts like an aggregate alias.
SchemaAgg ==
    [db_id |-> "g", table_names |-> <<"t">>,
     column_names |-> <<"a", "Max_a", "c">>,
     column_types |-> <<"Number", "Text", "Text">>,
     column_to_table |-> <<0, 0, 0>>,
     foreign_keys |-> <<>>, primary_keys |-> <<0>>]

\* The operations tried on the input #1 (columns: a), with the text up to the
\* output list.
OneInputOperations ==
    {"Filter [ #1 ] ", "Aggregate [ #1 ] ", "Top [ #1 ] Rows [ 1 ] ",
     "TopSort [ #1 ] Rows [ 1 ] OrderBy [ a ASC ] ", "Sort [ #1 ] OrderBy [ a ASC ] "}

\* The operations tried on the inputs #1 (columns: a) and #2 (columns: c).
TwoInputOperations ==
    {"Join [ #1, #2 ] ", "Intersect [ #1, #2 ] ", "Union [ #1, #2 ] ",
     "Except [ #1, #2 ] Predicate [ #1.a = 1 ] "}

\* Output lists: the text, the plain column names listed with the input each is
\* taken from (0: any input), and whether the list is the sole literal 1 AS One.
Outputs(text, plain, sole_dummy) ==
    [text |-> text, plain |-> plain, sole_dummy |-> sole_dummy]

PlainOutputs ==
    {Outputs("a", <<<<0, "a">>>>, FALSE),
     Outputs("Max_a", <<<<0, "Max_a">>>>, FALSE),
     Outputs("c", <<<<0, "c">>>>, FALSE),
     Outputs("a , Max_a", <<<<0, "a">>, <<0, "Max_a">>>>, FALSE),
     Outputs("1 AS One", <<>>, TRUE),
     Outputs("countstar AS Count_Star", <<>>, FALSE),
     Outputs("MAX(a) AS Max_a , a", <<<<0, "a">>>>, FALSE)}

IndexedPlainOutputs ==
    {Outputs("#1.a", <<<<1, "a">>>>, FALSE),
     Outputs("#2.c", <<<<2, "c">>>>, FALSE),
     Outputs("#1.c", <<<<1, "c">>>>, FALSE),
     Outputs("#2.Max_a", <<<<2, "Max_a">>>>, FALSE),
     Outputs("#1.a , #2.c", <<<<1, "a">>, <<2, "c">>>>, FALSE),
     Outputs("#1.a , #1.Max_a", <<<<1, "a">>, <<1, "Max_a">>>>, FALSE),
     Outputs("1 AS One", <<>>, TRUE)}

OutputCall(program, input_columns, outs) ==
    [route |-> "parse_next",
     parser |-> PrefixedQpl(<<[db_id |-> "g", schema |-> SchemaAgg]>>, FALSE),
     input |-> get_input(program \o "Output [ " \o outs.text \o " ]",
                         DefaultEnvironment, FALSE),
     input_columns |-> input_columns, outputs |-> outs]

OutputCalls ==
    {OutputCall("g | #1 = Scan Table [ t ] Output [ a ] ; #2 = " \o op,
                <<{"a"}>>, outs) : op \in OneInputOperations, outs \in PlainOutputs}
    \cup
    {OutputCall("g | #1 = Scan Table [ t ] Output [ a ] ; "
                \o "#2 = Scan Table [ t ] Output [ c ] ; #3 = " \o op,
                <<{"a"}, {"c"}>>, outs) :
        op \in TwoInputOperations, outs \in IndexedPlainOutputs}

\* The operations of a four-line program over SchemaD, in order.
ProgramLines ==
    <<"Scan Table [ t ] Output [ a , ab ]",
      "Aggregate [ #1 ] Output [ MAX(a) AS Max_a ]",
      "Filter [ #1 ] Output [ a ]",
      "Join [ #1, #3 ] Output [ #1.ab , #3.a ]">>

MaxLines == Len(ProgramLines)

\* The first Len(numbers) operations, the i-th written as line #numbers[i].
RECURSIVE NumberedLines(_, _)
NumberedLines(numbers, i) ==
    IF i > Len(numbers) THEN ""
    ELSE (IF i > 1 THEN " ; " ELSE "") \o "#" \o to_string(numbers[i]) \o " = "
         \o ProgramLines[i] \o NumberedLines(numbers, i + 1)

NumberedProgram(numbers) == "d | " \o NumberedLines(numbers, 1)

\* The numberings tried: the right one and those wrong in one place.
Numberings ==
    UNION {{[i \in 1..n |-> IF i = at THEN k ELSE i] : at \in 1..n, k \in 0..(MaxLines + 1)} :
              n \in 1..MaxLines}

ProgramCall(numbers) ==
    [route |-> "parse_next",
     parser |-> PrefixedQpl(<<[db_id |-> "d", schema |-> SchemaD]>>, FALSE),
     input |-> get_input(NumberedProgram(numbers), DefaultEnvironment, FALSE),
     numbers |-> numbers]

ProgramCalls == {ProgramCall(numbers) : numbers \in Numberings}

\* Lines and operations cut short: qpl_line on the strict prefixes of the first
\* line, in the environment before it, and aggregate on the strict prefixes of the
\* operation of the second line, in the environment inside that line.
CutLine == "#1 = " \o ProgramLines[1]

InsideSecondLine ==
    [state |-> [QplState(<<>>) EXCEPT
                   !.seen = {1},
                   !.idx_to_table = insert(<<>>, 1, get_output_table(
                                        SchemaD, "t", <<<<"a", <<>>>>, <<"ab", <<>>>>>>)),
                   !.current_idx = 2],
     schema |-> <<SchemaD>>]

CutCalls ==
    {[route |-> "parse_next", parser |-> [p |-> "qpl_line", wtc |-> FALSE],
      input |-> get_input(SubSeq(CutLine, 1, n), Environment(SchemaD, {}, <<>>), FALSE),
      cut |-> n] : n \in 0..(Len(CutLine) - 1)}
    \cup
    {[route |-> "parse_next", parser |-> P("aggregate"),
      input |-> get_input(SubSeq(ProgramLines[2], 1, n), InsideSecondLine, FALSE),
      cut |-> n] : n \in 0..(Len(ProgramLines[2]) - 1)}

\* Derived tables holding aggregate aliases, one of them a prefix of the other, in
\* either order and in one table or two, and a scanned table whose Plain column is
\* named like an alias.
AliasTables ==
    {<<>>,
     <<Indexed(1, <<Aliased("Max_a", "Number", <<>>), Aliased("Max_ab", "Number", <<>>)>>)>>,
     <<Indexed(1, <<Aliased("Max_ab", "Number", <<>>), Aliased("Max_a", "Number", <<>>)>>)>>,
     <<Indexed(1, <<Aliased("Max_a", "Number", <<>>)>>),
       Indexed(2, <<Aliased("Max_ab", "Number", <<>>)>>)>>,
     <<Indexed(1, <<Aliased("Max_ab", "Number", <<>>)>>),
       Indexed(2, <<Aliased("Max_a", "Number", <<>>)>>)>>,
     <<Named("t", <<Plain("Max_a", "Number", <<>>)>>)>>}

AliasedColumnCalls ==
    {[route |-> "parse_next", parser |-> P("aliased_column"),
      input |-> get_input(text, Environment(SchemaAgg, DOMAIN tables, tables), FALSE),
      alias_call |-> TRUE] :
        tables \in AliasTables, text \in {"Max_ab ]", "Max_a ]", "max_AB ]", "Min_a ]", ""}}

\* Output lists with what each output is: a column of input `from`, an aggregate
\* expression with its alias, or the literal 1 AS One.
FromInput(idx, column) == [kind |-> "input", from |-> idx, name |-> column]

Aggregated(alias) == [kind |-> "aggregate", from |-> 0, name |-> alias]

Literal1 == [kind |-> "dummy", from |-> 0, name |-> "1 AS One"]

Listed(text, outs) == [text |-> text, outs |-> outs]

\* Operations on input #1, a scan of all columns of SchemaAgg's table.
OneInputLists ==
    {<<op, l>> : op \in {"Filter [ #1 ] ", "Top [ #1 ] Rows [ 1 ] ", "Aggregate [ #1 ] "},
                 l \in {Listed("a , c", <<FromInput(1, "a"), FromInput(1, "c")>>),
                        Listed("c , a", <<FromInput(1, "c"), FromInput(1, "a")>>),
                        Listed("Max_a", <<FromInput(1, "Max_a")>>)}}
    \cup {<<"Filter [ #1 ] ", Listed("1 AS One", <<Literal1>>)>>,
          <<"Aggregate [ #1 ] ",
            Listed("countstar AS Count_Star , a",
                   <<Aggregated("Count_Star"), FromInput(1, "a")>>)>>,
          <<"Aggregate [ #1 ] ",
            Listed("a , MAX(DISTINCT c) AS Max_Dist_c",
                   <<FromInput(1, "a"), Aggregated("Max_Dist_c")>>)>>}

\* Operations on inputs #1 and #2, two scans of SchemaAgg's table.
TwoInputLists ==
    {<<op, l>> : op \in {"Join [ #1, #2 ] ", "Union [ #1, #2 ] "},
                 l \in {Listed("#2.c , #1.a", <<FromInput(2, "c"), FromInput(1, "a")>>),
                        Listed("#1.Max_a", <<FromInput(1, "Max_a")>>)}}
    \cup {<<"Join [ #1, #2 ] ", Listed("1 AS One", <<Literal1>>)>>}

DerivedCall(program, line, listed) ==
    [route |-> "parse_next",
     parser |-> PrefixedQpl(<<[db_id |-> "g", schema |-> SchemaAgg]>>, FALSE),
     input |-> get_input(program \o "Output [ " \o listed.text \o " ]",
                         DefaultEnvironment, FALSE),
     derived |-> [line |-> line, outs |-> listed.outs]]

DerivedCalls ==
    {DerivedCall("g | #1 = Scan Table [ t ] Output [ a , Max_a , c ] ; #2 = " \o x[1],
                 2, x[2]) : x \in OneInputLists}
    \cup
    {DerivedCall("g | #1 = Scan Table [ t ] Output [ a , Max_a , c ] ; "
                 \o "#2 = Scan Table [ t ] Output [ c , a ] ; #3 = " \o x[1],
                 3, x[2]) : x \in TwoInputLists}

\* Three tables, two primary keys, three foreign keys (referencing column, then
\* referenced column) and two names that differ by letter case only.
SchemaScan ==
    [db_id |-> "s", table_names |-> <<"t", "tu", "v">>,
     column_names |-> <<"Id", "Name", "Ref", "Own", "Key", "ID">>,
     column_types |-> <<"Number", "Text", "Number", "Text", "Number", "Text">>,
     column_to_table |-> <<0, 0, 1, 1, 2, 2>>,
     foreign_keys |-> <<<<3, 4>>, <<2, 0>>, <<3, 0>>>>, primary_keys |-> <<0, 3>>]

\* An output of a Scan as written, with its alias if any.
Written(column, alias) == [column |-> column, alias |-> alias]

output_text(out) ==
    out.column \o (IF out.alias = <<>> THEN "" ELSE " AS " \o out.alias[1])

ScanOutputs ==
    {Written(c, <<>>) : c \in {"Id", "id", "NAME", "Ref", "own", "Key"}}
    \cup {Written("name", <<"x">>), Written("Ref", <<"Id">>), Written("KEY", <<"k2">>)}

ScanOutputLists ==
    {<<o>> : o \in ScanOutputs}
    \cup {<<Written("Name", <<"n">>), Written("ID", <<>>)>>,
          <<Written("Own", <<>>), Written("ref", <<"r">>)>>,
          <<Written("Id", <<"x">>), Written("Key", <<>>)>>}

ScanCall(table, outs) ==
    [route |-> "parse_next",
     parser |-> PrefixedQpl(<<[db_id |-> "s", schema |-> SchemaScan]>>, FALSE),
     input |-> get_input("s | #1 = Scan Table [ " \o table \o " ] Output [ "
                         \o output_text(outs[1])
                         \o (IF Len(outs) = 1 THEN "" ELSE " , " \o output_text(outs[2]))
                         \o " ]",
                         DefaultEnvironment, FALSE),
     scan |-> [table |-> table, outs |-> outs]]

ScanCalls ==
    {ScanCall(table, outs) : table \in {"t", "tu", "v"}, outs \in ScanOutputLists}

\* Aggregate outputs <agg>(<DISTINCT >?<column>) AS <prefix><Dist_>?<name> over
\* input #1, a scan of the columns a and c of SchemaAgg's table.
AliasParts ==
    {[prefix |-> p, dist |-> d, name |-> n] :
        p \in {"Sum_", "Min_", "Max_", "Count_", "Avg_"}, d \in BOOLEAN,
        n \in {"a", "A", "c"}}
    \cup {[prefix |-> "Foo", dist |-> FALSE, name |-> ""]}

alias_text(alias) == alias.prefix \o (IF alias.dist THEN "Dist_" ELSE "") \o alias.name

AggregateAliasCall(agg_written, distinct, column, alias) ==
    [route |-> "parse_next",
     parser |-> PrefixedQpl(<<[db_id |-> "g", schema |-> SchemaAgg]>>, FALSE),
     input |-> get_input("g | #1 = Scan Table [ t ] Output [ a , c ] ; "
                         \o "#2 = Aggregate [ #1 ] Output [ " \o agg_written \o "("
                         \o (IF distinct THEN "DISTINCT " ELSE "") \o column
                         \o ") AS " \o alias_text(alias) \o " ]",
                         DefaultEnvironment, FALSE),
     aggregate_alias |-> [agg |-> agg_written, distinct |-> distinct,
                          column |-> column, alias |-> alias]]

AggregateAliasCalls ==
    {AggregateAliasCall(a, d, c, alias) :
        a \in {"SUM", "MIN", "MAX", "COUNT", "AVG", "max"}, d \in BOOLEAN,
        c \in {"a", "Max_a"}, alias \in AliasParts}

\* Each operation with the number of inputs it takes and a rest of the line that
\* is well-formed over the inputs #1 and #2, two scans of column a.
ArityOperations ==
    {<<"Filter", 1, "Output [ a ]">>,
     <<"Aggregate", 1, "Output [ a ]">>,
     <<"Top", 1, "Rows [ 1 ] Output [ a ]">>,
     <<"TopSort", 1, "Rows [ 1 ] OrderBy [ a ASC ] Output [ a ]">>,
     <<"Join", 2, "Output [ #1.a ]">>,
     <<"Except", 2, "Predicate [ #1.a IS NULL ] Output [ #1.a ]">>,
     <<"Union", 2, "Output [ #1.a ]">>}

WrittenIds == {<<1>>, <<2>>, <<1, 2>>, <<2, 1>>, <<1, 1>>}

ArityCall(operation, ids) ==
    [route |-> "parse_next",
     parser |-> PrefixedQpl(<<[db_id |-> "g", schema |-> SchemaAgg]>>, FALSE),
     input |-> get_input("g | #1 = Scan Table [ t ] Output [ a ] ; "
                         \o "#2 = Scan Table [ t ] Output [ a ] ; #3 = "
                         \o operation[1] \o " [ " \o IdsList(ids, ", ") \o " ] "
                         \o operation[3],
                         DefaultEnvironment, FALSE),
     arity |-> [operation |-> operation[1], takes |-> operation[2], ids |-> ids]]

ArityCalls == {ArityCall(operation, ids) : operation \in ArityOperations, ids \in WrittenIds}

\* Whole programs, each on a stream marked complete and on one that is not.
WholePrograms ==
    {NumberedProgram([i \in 1..n |-> i]) : n \in 1..MaxLines}
    \cup {ScanLine \o AliasLines \o Closing}

WholeProgramCalls ==
    {[route |-> "parse_next",
      parser |-> PrefixedQpl(<<[db_id |-> "d", schema |-> SchemaD]>>, FALSE),
      input |-> get_input(text, DefaultEnvironment, is_partial),
      whole |-> TRUE] : text \in WholePrograms, is_partial \in BOOLEAN}

Calls ==
    PrefixedCalls \cup TableNameCalls \cup TypedCalls \cup JoinKeyCalls
    \cup InputIdsCalls \cup OutputCalls \cup ProgramCalls \cup CutCalls
    \cup AliasedColumnCalls \cup DerivedCalls \cup ScanCalls
    \cup AggregateAliasCalls \cup ArityCalls \cup WholeProgramCalls

with_hasher(input, h) == [input EXCEPT !.state.state.hash_builder = h]

\* What a call did, whatever the RandomState it ran under.
effect(r) == [r EXCEPT !.s.state.state.hash_builder = <<>>]

Call ==
    /\ request = <<>>
    /\ \E c \in Calls : request' = <<c>>
    /\ UNCHANGED <<schemas, tokenizer, with_type_checking, response, hasher, parsed>>
    /\ UNCHANGED <<shared_state, tokenizer_mutex, tasks>>

\* The call's result under the RandomState h.
Returned(h, result) ==
    /\ response' = <<[status |-> "Ok", body |-> result]>>
    /\ hasher' = <<h>>

Return ==
    /\ Handling("parse_next")
    /\ \E h \in representatives(
                   [h \in RandomStates |->
                       effect(parse_next(request[1].parser,
                                         with_hasher(request[1].input, h)))]) :
          Returned(h, parse_next(request[1].parser, with_hasher(request[1].input, h)))
    /\ UNCHANGED <<schemas, tokenizer, with_type_checking, request, parsed>>
    /\ UNCHANGED <<shared_state, tokenizer_mutex, tasks>>

LibNext ==
    \/ Call
    \/ Return
    \/ Reply

LibSpec == Init /\ [][LibNext]_vars

(***************************************************************************)
(* The server with schemas registered again and again: two of the schemas   *)
(* sent share the db_id "d", and programs are validated in between.         *)
(***************************************************************************)
SchemaD2 == [SchemaE EXCEPT !.db_id = "d"]

RegistrationPool == {SchemaD, SchemaD2, SchemaE, SchemaDD}

RegistrationQplPool ==
    {"d | #1 = Scan Table [ tu ] Output [ a ]", "d | #1 = Scan Table [ t ] Output [ a ]",
     "e | #1 = Scan Table [ t ] Output [ a ]", "dd | #1 = Scan Table [ t ] Output [ a ]"}

ArriveRegistration ==
    /\ request = <<>>
    /\ \E req \in {[route |-> "/schema", schema |-> x] : x \in RegistrationPool}
                  \cup {[route |-> "/validate", qpl |-> x] : x \in RegistrationQplPool} :
          request' = <<req>>
    /\ UNCHANGED <<schemas, tokenizer, with_type_checking, response, hasher, parsed>>
    /\ UNCHANGED <<shared_state, tokenizer_mutex, tasks>>

RegistrationNext ==
    \/ ArriveRegistration
    \/ register_schema
    \/ validate_qpl
    \/ Reply

RegistrationSpec == Init /\ [][RegistrationNext]_vars

(***************************************************************************)
(* main.rs, the handlers as concurrent tasks: each awaits the RwLock of    *)
(* the shared state first and holds the guard until it returns; feed's     *)
(* detokenize takes the tokenizer's Mutex for the decoding.  tokio's RwLock*)
(* grants the lock in order of arrival.  The candidates of a batch, which  *)
(* rayon classifies in parallel, are taken one after the other.            *)
(***************************************************************************)
ConcurrentRequests ==
    {[route |-> "/schema", schema |-> x] : x \in {SchemaD, SchemaD2}}
    \cup {[route |-> "/tokenizer", tokenizer_repr |-> x] : x \in TokenizerPool}
    \cup {[route |-> "/validate", qpl |-> ScanLine],
          [route |-> "/parse", input_ids |-> <<<<1>>, <<1>>>>,
           top_tokens |-> <<<<0>>, <<0>>>>]}

\* state.write().await in register_schema and register_tokenizer, state.read().await
\* in validate_qpl and parse_qpl.
writes(req) == req.route \in {"/schema", "/tokenizer"}

\* A write guard where read guards are out.
write_permitted_among_readers(l) == l.writer = <<>>

read_permitted(l) == l.writer = <<>>

write_permitted(l) == l.writer = <<>> /\ l.readers = {}

\* The guard of connection c is dropped.
release(l, c) ==
    [l EXCEPT !.readers = @ \ {c}, !.writer = IF @ = <<c>> THEN <<>> ELSE @]

at_pc(c, pc) == tasks[c].pc = pc

goto(c, pc) == [tasks EXCEPT ![c].pc = pc]

\* The handler returns `answer`.
returns(c, answer) == [tasks EXCEPT ![c].pc = "done", ![c].results = answer]

\* A request is routed to its handler, which awaits the lock.
Accept(c) ==
    /\ at_pc(c, "idle")
    /\ \E req \in ConcurrentRequests :
          tasks' = [tasks EXCEPT ![c] = [Idle EXCEPT !.pc = "await", !.request = <<req>>]]
    /\ shared_state' = [shared_state EXCEPT !.waiters = Append(@, c)]
    /\ UNCHANGED <<schemas, tokenizer, with_type_checking, request, response, hasher,
                   parsed, tokenizer_mutex>>

\* The first in line gets the guard; snapshot records the ServerState it finds.
Acquire(c) ==
    /\ at_pc(c, "await")
    /\ shared_state.waiters # <<>> /\ Head(shared_state.waiters) = c
    /\ IF writes(tasks[c].request[1])
       THEN /\ write_permitted(shared_state)
            /\ shared_state' = [shared_state EXCEPT !.waiters = Tail(@), !.writer = <<c>>]
       ELSE /\ read_permitted(shared_state)
            /\ shared_state' = [shared_state EXCEPT !.waiters = Tail(@),
                                                    !.readers = @ \cup {c}]
    /\ tasks' = [tasks EXCEPT ![c].pc = tasks[c].request[1].route,
                              ![c].snapshot = <<ServerState>>]
    /\ UNCHANGED <<schemas, tokenizer, with_type_checking, request, response, hasher,
                   parsed, tokenizer_mutex>>

\* register_schema under its write guard.
InsertSchema(c) ==
    /\ at_pc(c, "/schema")
    /\ LET db_id == tasks[c].request[1].schema.db_id
           found == {i \in 1..Len(schemas) : schemas[i].db_id = db_id}
           entry == [db_id |-> db_id, schema |-> tasks[c].request[1].schema]
       IN IF found # {}
          THEN schemas' = [schemas EXCEPT ![CHOOSE i \in found : TRUE] = entry]
          ELSE \E i \in 0..Len(schemas) :
                  schemas' = SubSeq(schemas, 1, i) \o <<entry>>
                             \o SubSeq(schemas, i + 1, Len(schemas))
    /\ shared_state' = release(shared_state, c)
    /\ tasks' = returns(c, <<"Ok">>)
    /\ UNCHANGED <<tokenizer, with_type_checking, request, response, hasher, parsed,
                   tokenizer_mutex>>

\* register_tokenizer under its write guard; the unwrap of from_str panics on
\* text that is no tokenizer, and the unwinding drops the guard.
SetTokenizer(c) ==
    /\ at_pc(c, "/tokenizer")
    /\ LET parsed_repr == from_str(tasks[c].request[1].tokenizer_repr)
       IN IF parsed_repr = <<>>
          THEN /\ tasks' = returns(c, <<"Panic">>)
               /\ UNCHANGED tokenizer
          ELSE /\ tokenizer_mutex = <<>>
               /\ tokenizer' = parsed_repr
               /\ tasks' = returns(c, <<"Ok">>)
    /\ shared_state' = release(shared_state, c)
    /\ UNCHANGED <<schemas, with_type_checking, request, response, hasher, parsed,
                   tokenizer_mutex>>

\* validate_qpl under its read guard.
Validate(c) ==
    /\ at_pc(c, "/validate")
    /\ \E h \in distinct_hashers(schemas, with_type_checking,
                                 complete(Stream(tasks[c].request[1].qpl, <<>>))) :
          tasks' = returns(c, <<FeedResult(
                                   parse_next(PrefixedQpl(schemas, with_type_checking),
                                              complete(Stream(tasks[c].request[1].qpl,
                                                              h))))>>)
    /\ shared_state' = release(shared_state, c)
    /\ UNCHANGED <<schemas, tokenizer, with_type_checking, request, response, hasher,
                   parsed, tokenizer_mutex>>

\* tokenizer.lock().unwrap(), in parse_qpl and in detokenize: the thread waits
\* while another holds the Mutex.
LockTokenizer(c) ==
    /\ at_pc(c, "/parse") \/ at_pc(c, "detokenize")
    /\ tokenizer_mutex = <<>>
    /\ tokenizer_mutex' = <<c>>
    /\ tasks' = goto(c, IF at_pc(c, "/parse") THEN "is_none" ELSE "decode")
    /\ UNCHANGED <<schemas, tokenizer, with_type_checking, request, response, hasher,
                   parsed, shared_state>>

\* parse_qpl's check that a tokenizer is registered.
IsNone(c) ==
    /\ at_pc(c, "is_none")
    /\ tokenizer_mutex' = <<>>
    /\ IF tokenizer = <<>>
       THEN /\ tasks' = returns(c, <<"Tokenizer not registered">>)
            /\ shared_state' = release(shared_state, c)
       ELSE /\ tasks' = goto(c, "detokenize")
            /\ UNCHANGED shared_state
    /\ UNCHANGED <<schemas, tokenizer, with_type_checking, request, response, hasher,
                   parsed>>

\* The candidates of the request's batch.
triplets(c) ==
    triplets_from(tasks[c].request[1].input_ids, tasks[c].request[1].top_tokens, 1)

\* feed's detokenize of the next candidate, and the stream made of the text.
Decode(c) ==
    /\ at_pc(c, "decode")
    /\ tokenizer_mutex' = <<>>
    /\ LET candidate == triplets(c)[Len(tasks[c].results) + 1]
       IN tasks' = [tasks EXCEPT
                       ![c].pc = "feed",
                       ![c].decoded = <<parser_input(candidate.inputs, candidate.t,
                                                     ServerState, <<>>)>>]
    /\ UNCHANGED <<schemas, tokenizer, with_type_checking, request, response, hasher,
                   parsed, shared_state>>

\* feed's parse and match; after the last candidate parse_qpl returns.
Feed(c) ==
    /\ at_pc(c, "feed")
    /\ \E h \in distinct_hashers(schemas, with_type_checking, tasks[c].decoded[1]) :
          tasks' = [tasks EXCEPT
                       ![c].pc = IF Len(tasks[c].results) + 1 = Len(triplets(c))
                                 THEN "done" ELSE "detokenize",
                       ![c].decoded = <<>>,
                       ![c].results =
                           Append(@, FeedResult(
                                         parse_next(PrefixedQpl(schemas, with_type_checking),
                                                    with_hasher(tasks[c].decoded[1], h))))]
    /\ shared_state' = IF Len(tasks[c].results) + 1 = Len(triplets(c))
                       THEN release(shared_state, c) ELSE shared_state
    /\ UNCHANGED <<schemas, tokenizer, with_type_checking, request, response, hasher,
                   parsed, tokenizer_mutex>>

\* The response is sent.
Close(c) ==
    /\ at_pc(c, "done")
    /\ tasks' = [tasks EXCEPT ![c] = Idle]
    /\ UNCHANGED <<schemas, tokenizer, with_type_checking, request, response, hasher,
                   parsed, shared_state, tokenizer_mutex>>

ConcurrentNext ==
    \E c \in Connections :
        \/ Accept(c)
        \/ Acquire(c)
        \/ InsertSchema(c)
        \/ SetTokenizer(c)
        \/ Validate(c)
        \/ LockTokenizer(c)
        \/ IsNone(c)
        \/ Decode(c)
        \/ Feed(c)
        \/ Close(c)

ConcurrentSpec == Init /\ [][ConcurrentNext]_vars

(***************************************************************************)
(* Properties.                                                             *)
(***************************************************************************)
Served(route) == request # <<>> /\ response # <<>> /\ request[1].route = route

Classified == Served("/parse") /\ response[1].status = "Ok"

is_strict_prefix(p, str) == Len(p) < Len(str) /\ starts_with(str, p)

\* C1: the classifier answers Complete exactly when the prefixed-program parse
\* succeeds, Partial exactly when it ends in an Incomplete error, Failure exactly
\* when it ends in any other error; there is no fourth answer.
C1_ClassifierMapsParseOutcome ==
    Classified =>
        /\ Len(response[1].body) = Len(parsed)
        /\ \A k \in 1..Len(parsed) :
              LET feed_result == response[1].body[k].feed_result
              IN /\ feed_result \in {"Complete", "Partial", "Failure"}
                 /\ feed_result = "Complete" <=> parsed[k].k = "Ok"
                 /\ feed_result = "Partial" <=> parsed[k].k = "Incomplete"
                 /\ feed_result = "Failure" <=> parsed[k].k \in {"Backtrack", "Cut"}

C1_AllThreeAnswers ==
    /\ Classified
    /\ \A x \in {"Complete", "Partial", "Failure"} :
          \E k \in 1..Len(response[1].body) : response[1].body[k].feed_result = x

\* C2: completeness monotonicity.  Of the texts classified against one registry,
\* a strict prefix, classified without the completion flag, of a text classified
\* Complete is classified Partial or Complete.
C2_CompletenessMonotonicity ==
    Classified =>
        \A i, j \in 1..Len(parsed) :
            (/\ response[1].body[i].feed_result = "Complete"
             /\ parsed[j].partial
             /\ is_strict_prefix(parsed[j].text, parsed[i].text))
            => response[1].body[j].feed_result \in {"Partial", "Complete"}

\* C3: failure stickiness.  Of the texts classified against one registry, every
\* extension (with or without the completion flag) of a text classified Failure
\* without the completion flag is classified Failure.
C3_FailureStickiness ==
    Classified =>
        \A i, j \in 1..Len(parsed) :
            (/\ response[1].body[i].feed_result = "Failure"
             /\ parsed[i].partial
             /\ starts_with(parsed[j].text, parsed[i].text))
            => response[1].body[j].feed_result = "Failure"

\* C4: determinism.  Two classifications of the same text with the same completion
\* flag against the same registry give the same result, whatever the iteration
\* orders of the hash maps.
C4_Determinism ==
    Classified =>
        \A i, j \in 1..Len(parsed) :
            (parsed[i].text = parsed[j].text /\ parsed[i].partial = parsed[j].partial)
            => response[1].body[i].feed_result = response[1].body[j].feed_result

C6_NoDuplicateOutputNames ==
    \A i \in 1..Len(parsed) :
        parsed[i].k = "Ok" =>
            \A m \in DOMAIN parsed[i].idx_to_table :
                ~has_duplicates(column_names_of(parsed[i].idx_to_table[m].columns))

\* C7: partial input.  An accepted program with its trailing "]" removed, or cut
\* earlier, classified without the completion flag, is classified Partial.
C7_CutProgramIsPartial ==
    Classified =>
        \A i, j \in 1..Len(parsed) :
            (/\ response[1].body[i].feed_result = "Complete"
             /\ parsed[j].partial
             /\ is_strict_prefix(parsed[j].text, parsed[i].text))
            => response[1].body[j].feed_result = "Partial"

\* C8: /validate answers Valid exactly when the request string parses as a prefixed
\* program on a stream marked complete; otherwise it answers Invalid with one of
\* the reasons "Partial result" and "Failed to parse" and nothing else.
C8_ValidIffParseSucceeds ==
    Served("/validate") =>
        LET accepted == parse_next(PrefixedQpl(schemas, with_type_checking),
                                   complete(Stream(request[1].qpl, hasher[1]))).k = "Ok"
            body == response[1].body
        IN /\ response[1].status = "Ok"
           /\ accepted => body = [tag |-> "valid"]
           /\ ~accepted =>
                 /\ DOMAIN body = {"tag", "reason"}
                 /\ body.tag = "invalid"
                 /\ body.reason \in {"Partial result", "Failed to parse"}

C8_ProgramValidated ==
    /\ Served("/validate")
    /\ request[1].qpl = ScanLine \o AliasLines \o Closing
    /\ response[1].body.tag = "valid"

\* C9: /parse without a registered tokenizer answers the error "Tokenizer not
\* registered" and classifies nothing; a registered tokenizer is never unset, and
\* with one /parse answers with classifications.
C9_TokenizerRequired ==
    /\ [](Served("/parse") =>
             IF tokenizer = <<>>
             THEN /\ response[1] = [status |-> "Err", body |-> "Tokenizer not registered"]
                  /\ parsed = <<>>
             ELSE response[1].status = "Ok")
    /\ [][tokenizer # <<>> => tokenizer' # <<>>]_vars

C9_RefusedWithoutTokenizer ==
    Served("/parse") /\ tokenizer = <<>> /\ request[1].top_tokens # <<>>

\* C10: the /parse response has, for every batch row i and every candidate of
\* top_tokens[i], in that order, one entry with batch_id = i (from 0),
\* top_token = the candidate and feed_result = the classification of the decoding
\* of input_ids[i] followed by the candidate; it has no other entry.
RECURSIVE entries_before(_, _)
entries_before(top_tokens, i) ==
    IF i <= 1 THEN 0 ELSE Len(top_tokens[i - 1]) + entries_before(top_tokens, i - 1)

C10_OneEntryPerCandidate ==
    Classified =>
        LET rows == Min(Len(request[1].input_ids), Len(request[1].top_tokens))
            body == response[1].body
        IN /\ Len(body) = entries_before(request[1].top_tokens, rows + 1)
           /\ \A i \in 1..rows : \A j \in 1..Len(request[1].top_tokens[i]) :
                 LET k == entries_before(request[1].top_tokens, i) + j
                     t == request[1].top_tokens[i][j]
                     decoded == decode(tokenizer[1], Append(request[1].input_ids[i], t))
                     input == IF ends_with(decoded, EOS)
                              THEN complete(Stream(strip_suffix(decoded, EOS), hasher[k]))
                              ELSE Stream(decoded, hasher[k])
                     outcome == parse_next(PrefixedQpl(schemas, with_type_checking), input).k
                 IN /\ body[k].batch_id = i - 1
                    /\ body[k].top_token = t
                    /\ body[k].feed_result =
                          (CASE outcome = "Ok" -> "Complete"
                             [] outcome = "Incomplete" -> "Partial"
                             [] OTHER -> "Failure")

C10_TwoRowsTwoCandidates ==
    /\ Classified
    /\ Len(response[1].body) = 4
    /\ response[1].body[1].batch_id # response[1].body[4].batch_id
    /\ response[1].body[3].top_token # response[1].body[4].top_token

\* C11: in the token-feed path the stream is complete exactly when the decoded text
\* ends with "</s>", and then the parser gets the text without that marker; without
\* the marker it gets the decoded text unchanged on a partial stream.  The
\* validation path always parses the request's string on a complete stream.
C11_CompleteIffEndOfSequence ==
    /\ Classified =>
          LET rows == Min(Len(request[1].input_ids), Len(request[1].top_tokens))
          IN \A i \in 1..rows : \A j \in 1..Len(request[1].top_tokens[i]) :
                LET k == entries_before(request[1].top_tokens, i) + j
                    decoded == decode(tokenizer[1], Append(request[1].input_ids[i],
                                                           request[1].top_tokens[i][j]))
                    marked == /\ Len(decoded) >= Len(EOS)
                              /\ SubSeq(decoded, Len(decoded) - Len(EOS) + 1,
                                        Len(decoded)) = EOS
                IN /\ parsed[k].partial = ~marked
                   /\ marked => parsed[k].text \o EOS = decoded
                   /\ ~marked => parsed[k].text = decoded
    /\ Served("/validate") =>
          /\ Len(parsed) = 1
          /\ ~parsed[1].partial
          /\ parsed[1].text = request[1].qpl

C11_MarkedAndUnmarkedFed ==
    /\ Classified
    /\ \E i, j \in 1..Len(parsed) : parsed[i].partial /\ ~parsed[j].partial

\* The text `prefix` at the head of `str`, letter case aside.
caseless_prefix(prefix, str) ==
    /\ Len(str) >= Len(prefix)
    /\ to_lowercase(SubSeq(str, 1, Len(prefix))) = to_lowercase(prefix)

\* The text can no longer become one that starts with `id`, letter case aside.
caseless_mismatch(id, str) ==
    LET n == Min(Len(id), Len(str))
    IN to_lowercase(SubSeq(str, 1, n)) # to_lowercase(SubSeq(id, 1, n))

without_special_token(text) ==
    IF Len(text) >= 4 /\ SubSeq(text, 1, 4) = "<s> " THEN SubSeq(text, 5, Len(text))
    ELSE text

\* C12: the prefixed parser binds, of the registered db_ids that the text starts
\* with (letter case aside), one of the longest, so the longer of two ids of which
\* one is a prefix of the other; when no registered id matches, and with an empty
\* registry, the parse fails and no schema is bound.
C12_LongestDbIdFirst ==
    (Served("parse_next") /\ request[1].parser.p = "prefixed_qpl") =>
        LET registry == request[1].parser.registry
            text == without_special_token(request[1].input.text)
            result == response[1].body
            matching == {i \in 1..Len(registry) : caseless_prefix(registry[i].db_id, text)}
            longest == {i \in matching :
                           \A j \in matching :
                               Len(registry[j].db_id) <= Len(registry[i].db_id)}
        IN /\ result.s.state.schema # <<>> =>
                 \E i \in longest : result.s.state.schema = <<registry[i].schema>>
           /\ (matching # {} /\ ~request[1].input.partial) =>
                 result.s.state.schema # <<>>
           /\ (\A i \in 1..Len(registry) : caseless_mismatch(registry[i].db_id, text)) =>
                 /\ result.k = "Backtrack"
                 /\ result.s.state.schema = <<>>

C12_LongerOfTwoBound ==
    /\ Served("parse_next") /\ request[1].parser.p = "prefixed_qpl"
    /\ \E i, j \in 1..Len(request[1].parser.registry) :
          /\ request[1].parser.registry[i].db_id = "d"
          /\ request[1].parser.registry[j].db_id = "dd"
          /\ i < j
    /\ request[1].input.text = "Dd | #1 = Scan Table [ t ] Output [ a ]"
    /\ response[1].body.k = "Ok"
    /\ response[1].body.s.state.schema = <<SchemaDD>>

\* C13: table_name binds, of the schema's table names that the text starts with
\* (letter case aside), one of the longest; a text that is a strict prefix of a
\* table name on a partial stream gives Incomplete; a text that starts with no
\* table name gives an error.  `Scan Table [ tu ]` binds tu where t is a table too.
C13_LongestTableNameFirst ==
    /\ (Served("parse_next") /\ request[1].parser.p = "table_name") =>
          LET input == request[1].input
              names == input.state.schema[1].table_names
              result == response[1].body
              matching == {i \in 1..Len(names) : caseless_prefix(names[i], input.text)}
              cut_short == \E i \in 1..Len(names) :
                              /\ Len(input.text) < Len(names[i])
                              /\ caseless_prefix(input.text, names[i])
          IN IF input.partial /\ cut_short THEN result.k = "Incomplete"
             ELSE IF matching = {} THEN result.k = "Backtrack"
             ELSE /\ result.k = "Ok"
                  /\ \E i \in matching :
                        /\ result.v = names[i]
                        /\ \A j \in matching : Len(names[j]) <= Len(names[i])
                  /\ result.s.pos = Len(result.v)
    /\ (/\ Served("parse_next") /\ request[1].parser.p = "prefixed_qpl"
        /\ request[1].input.text = "d | #1 = Scan Table [ tu ] Output [ a ]") =>
          /\ response[1].body.k = "Ok"
          /\ response[1].body.v[1].operation.table = "tu"

C13_LongerTableBound ==
    /\ Served("parse_next") /\ request[1].parser.p = "table_name"
    /\ request[1].input.state.schema[1].table_names = <<"t", "tu">>
    /\ request[1].input.text = "tu ]"
    /\ response[1].body.k = "Ok" /\ response[1].body.v = "tu"

\* The kinds of literal the type-checking table allows against a column of lhs_type.
AllowedLiterals(lhs_type) ==
    CASE lhs_type = "Number" -> {"number", "null"}
      [] lhs_type = "Boolean" -> {"boolean", "null"}
      [] lhs_type \in {"Text", "Time"} -> {"string", "null"}
      [] lhs_type = "Others" -> {"number", "boolean", "string", "null"}

Typed == Served("parse_next") /\ "operation" \in DOMAIN request[1]

Sharpened == Served("parse_next") /\ "sharpening" \in DOMAIN request[1]

\* C14: with type checking on, in the predicate of Scan, Filter, Join (operator other
\* than =) and Except, the right-hand side after a column of type T is accepted
\* exactly when it is a literal of a kind the table allows for T, NULL, or a column
\* of type T; any other right-hand side makes the line, and so the program, fail.
C14_TypedRightHandSides ==
    Typed =>
        LET lhs_type == SchemaTyped.column_types[request[1].lhs]
            rhs == request[1].rhs
            allowed ==
                IF rhs.column
                THEN \E i \in 1..Len(SchemaTyped.column_names) :
                        /\ SchemaTyped.column_names[i] = rhs.text
                        /\ SchemaTyped.column_types[i] = lhs_type
                ELSE rhs.kinds \cap AllowedLiterals(lhs_type) # {}
        IN IF allowed THEN response[1].body.k = "Ok"
           ELSE response[1].body.k = "Backtrack"

\* The table is followed by Scan, Filter and Join; only Except departs from it.
C14_HoldsOutsideExcept == (Typed /\ request[1].operation # "Except") => C14_TypedRightHandSides

\* Key K of the left-hand side is matched by a right-hand column with keys rhs_keys.
KeyMatches(K, rhs_keys) ==
    \/ /\ K.kind = "PrimaryKey"
       /\ [kind |-> "ForeignKey", table |-> K.table] \in rhs_keys
    \/ /\ K.kind = "ForeignKey"
       /\ \/ [kind |-> "ForeignKey", table |-> K.table] \in rhs_keys
          \/ [kind |-> "PrimaryKey", table |-> K.table] \in rhs_keys

\* The right-hand columns of a sharpened comparison that are to be accepted: one of
\* the type of the left-hand side that a key of the left-hand side matches or,
\* when no key matches, that is an Aliased column.
KeyCompatible(lhs, rhs) ==
    /\ rhs.typ = lhs.typ
    /\ \/ \E K \in lhs.keys : KeyMatches(K, rhs.keys)
       \/ rhs.aliased

\* C15: in a Join predicate under type checking, with operator = and a left-hand
\* side that is not an aggregate alias, the right-hand column is accepted exactly
\* when a key of the left-hand side matches it or, failing that, it is an Aliased
\* column of the type of the left-hand side; otherwise the line fails.
C15_JoinKeySharpening ==
    Sharpened =>
        IF KeyCompatible(request[1].sharpening.lhs, request[1].sharpening.rhs)
        THEN response[1].body.k = "Ok"
        ELSE response[1].body.k = "Backtrack"

\* C16: a right-hand side that is not key-compatible, in an input table holding a
\* column that is not Aliased, gives a failure of the parse, never a panic.
C16_MismatchInsteadOfPanic ==
    (/\ Sharpened
     /\ ~KeyCompatible(request[1].sharpening.lhs, request[1].sharpening.rhs)
     /\ \E i \in 1..Len(request[1].sharpening.rhs_table) :
           ~request[1].sharpening.rhs_table[i].aliased)
        => response[1].body.k = "Backtrack"

\* C17: input_ids accepts one or two ids, never none or three, and only ids that
\* are all in `seen`; it returns the ids listed and fails on any other list.
C17_InputIdsSeen ==
    (Served("parse_next") /\ request[1].parser.p = "input_ids") =>
        LET ids == request[1].ids
            seen == request[1].input.state.state.seen
        IN IF Len(ids) \in 1..2 /\ \A i \in 1..Len(ids) : ids[i] \in seen
           THEN response[1].body.k = "Ok" /\ response[1].body.v = ids
           ELSE response[1].body.k = "Backtrack"

C17_UnseenIdRefused ==
    /\ Served("parse_next") /\ request[1].parser.p = "input_ids"
    /\ Len(request[1].ids) = 2
    /\ request[1].ids[1] \in request[1].input.state.state.seen
    /\ request[1].ids[2] \notin request[1].input.state.state.seen
    /\ response[1].body.k = "Backtrack"

\* A listed plain output that is no column of the input it is taken from.
AbsentFromInputs(input_columns, outs) ==
    \E i \in 1..Len(outs.plain) :
        LET out == outs.plain[i]
        IN IF out[1] = 0 THEN \A j \in 1..Len(input_columns) : out[2] \notin input_columns[j]
           ELSE out[2] \notin input_columns[out[1]]

\* C18: in an operation other than Scan, a listed output that is not an aggregate
\* expression and is no column of the input tables makes the line fail, unless the
\* list is the sole literal 1 AS One; this holds whatever the spelling of the
\* column, also for a schema column whose name begins with Max_.
C18_OutputMembership ==
    (/\ Served("parse_next") /\ "outputs" \in DOMAIN request[1]
     /\ ~request[1].outputs.sole_dummy
     /\ AbsentFromInputs(request[1].input_columns, request[1].outputs))
        => response[1].body.k = "Backtrack"

\* schemas.get(db_id), as an Option.
registered(registry, db_id) ==
    LET at == {i \in 1..Len(registry) : registry[i].db_id = db_id}
    IN IF at = {} THEN <<>> ELSE <<registry[CHOOSE i \in at : TRUE].schema>>

\* C19: a /schema request leaves in the registry, under its db_id, the schema just
\* sent and only that one, and every other db_id as it was; sending a schema that
\* is already registered leaves the registry, and so every later answer, as it was.
C19_RegistrationOverwrites ==
    [][register_schema =>
          LET sent == request[1].schema
          IN /\ \A i, j \in 1..Len(schemas') :
                   schemas'[i].db_id = schemas'[j].db_id => i = j
             /\ \A x \in RegistrationPool :
                   registered(schemas', x.db_id) =
                       IF x.db_id = sent.db_id THEN <<sent>>
                       ELSE registered(schemas, x.db_id)
             /\ registered(schemas, sent.db_id) = <<sent>> => schemas' = schemas]_vars

C19_OverwrittenSchemaServes ==
    /\ Served("/validate") /\ request[1].qpl = "d | #1 = Scan Table [ tu ] Output [ a ]"
    /\ registered(schemas, "d") = <<SchemaD2>>
    /\ Len(schemas) = 3
    /\ response[1].body.tag = "invalid"

\* The stream of a classification that starts afresh: nothing consumed, no line
\* numbered, nothing seen, no derived table, no schema chosen.
fresh(text, is_partial, order) ==
    [text |-> text, pos |-> 0, partial |-> is_partial,
     state |-> [state |-> [current_idx |-> 0, seen |-> {}, idx_to_table |-> <<>>,
                           hash_builder |-> order],
                schema |-> <<>>],
     refs |-> {}]

Numbered == Served("parse_next") /\ "numbers" \in DOMAIN request[1]

\* The result of the call of the program made of the first m lines of the request,
\* under the RandomState of the call served.
prefix_result(m) ==
    LET call == ProgramCall(SubSeq(request[1].numbers, 1, m))
    IN parse_next(call.parser, with_hasher(call.input, hasher[1]))

\* C21: a program is accepted only if its lines are numbered 1, 2, ..., n; after
\* its n lines current_idx = n, seen = 1..n and idx_to_table has exactly the
\* entries 1..n, and the entry of each line is the one that line made: no later
\* line replaces or changes it.
C21_EnvironmentBookkeeping ==
    (Numbered /\ response[1].body.k = "Ok") =>
        LET n == Len(request[1].numbers)
            env == response[1].body.s.state.state
        IN /\ request[1].numbers = [i \in 1..n |-> i]
           /\ env.current_idx = n
           /\ env.seen = 1..n
           /\ DOMAIN env.idx_to_table = 1..n
           /\ \A m \in 1..(n - 1) :
                 /\ prefix_result(m).k = "Ok"
                 /\ \A j \in 1..m :
                       env.idx_to_table[j] = prefix_result(m).s.state.state.idx_to_table[j]

C21_FourLinesAccepted ==
    /\ Numbered /\ response[1].body.k = "Ok"
    /\ Len(request[1].numbers) = MaxLines

\* C22: a line or an operation that fails part-way leaves current_idx, seen and
\* idx_to_table exactly as they were when it started.
C22_FailureLeavesEnvironment ==
    (/\ Served("parse_next") /\ "cut" \in DOMAIN request[1]
     /\ response[1].body.k # "Ok")
        => LET was == request[1].input.state.state
               is == response[1].body.s.state.state
           IN /\ is.current_idx = was.current_idx
              /\ is.seen = was.seen
              /\ is.idx_to_table = was.idx_to_table

\* C23: aliased_column matches the names of the Aliased columns of the derived
\* tables and no other name, and of the aliases the text starts with it binds the
\* longest, whichever line made which.
C23_LongestAliasFirst ==
    (Served("parse_next") /\ "alias_call" \in DOMAIN request[1]) =>
        LET tables == request[1].input.state.state.idx_to_table
            aliases == UNION {{tables[i].columns[j].name :
                                  j \in {c \in 1..Len(tables[i].columns) :
                                            tables[i].columns[c].variant = "Aliased"}} :
                              i \in DOMAIN tables}
            matching == {a \in aliases : caseless_prefix(a, request[1].input.text)}
        IN IF matching = {} THEN response[1].body.k = "Backtrack"
           ELSE /\ response[1].body.k = "Ok"
                /\ response[1].body.v \in matching
                /\ \A a \in matching : Len(a) <= Len(response[1].body.v)

\* The column an output is to become, given the tables of the inputs.
derived_column(out, tables) ==
    CASE out.kind = "dummy" -> [variant |-> "Dummy"]
      [] out.kind = "aggregate" ->
            [variant |-> "Aliased", name |-> out.name, typ |-> "Number", keys |-> <<>>]
      [] out.kind = "input" ->
            LET columns == tables[out.from].columns
            IN columns[CHOOSE i \in 1..Len(columns) :
                          columns[i].variant # "Dummy" /\ columns[i].name = out.name]

\* C24: the table derived by an operation other than Scan is Indexed with the
\* index of its line and lists the outputs in the order written: an input column
\* as a copy of that column (variant, type and keys), an aggregate output as an
\* Aliased column of type Number without keys, 1 AS One as Dummy.
C24_DerivedColumns ==
    (/\ Served("parse_next") /\ "derived" \in DOMAIN request[1]
     /\ response[1].body.k = "Ok")
        => LET line == request[1].derived.line
               outs == request[1].derived.outs
               tables == response[1].body.s.state.state.idx_to_table
           IN /\ tables[line].variant = "Indexed"
              /\ tables[line].idx = line
              /\ tables[line].columns = [i \in 1..Len(outs) |-> derived_column(outs[i], tables)]

\* The places of schema.column_names (1-based) holding table's column `column`,
\* letter case apart.
columns_of(sql_schema, table, column) ==
    {i \in 1..Len(sql_schema.column_names) :
        /\ to_lowercase(sql_schema.column_names[i]) = to_lowercase(column)
        /\ sql_schema.table_names[sql_schema.column_to_table[i] + 1] = table}

\* C25: a Scan of table t accepts the outputs that are columns of t, letter case
\* apart, each with or without an alias, and refuses a list with a column of
\* another table; the table it derives is Named t and lists Plain columns: an
\* output without alias under the schema's spelling of its name, a renamed one
\* under its alias, both with the type and the keys of the schema column.
C25_ScanOutputColumns ==
    (Served("parse_next") /\ "scan" \in DOMAIN request[1]) =>
        LET table == request[1].scan.table
            outs == request[1].scan.outs
            derived == response[1].body.s.state.state.idx_to_table[1]
        IN IF \E i \in 1..Len(outs) : columns_of(SchemaScan, table, outs[i].column) = {}
           THEN response[1].body.k # "Ok"
           ELSE /\ response[1].body.k = "Ok"
                /\ derived.variant = "Named"
                /\ derived.name = table
                /\ Len(derived.columns) = Len(outs)
                /\ \A i \in 1..Len(outs) :
                      LET at == CHOOSE c \in columns_of(SchemaScan, table, outs[i].column) : TRUE
                          column == derived.columns[i]
                      IN /\ column.variant = "Plain"
                         /\ IF outs[i].alias # <<>> THEN column.name = outs[i].alias[1]
                            ELSE to_lowercase(column.name) = to_lowercase(outs[i].column)
                                 /\ contains(SchemaScan.column_names, column.name)
                         /\ column.typ = SchemaScan.column_types[at]
                         /\ column.keys = column_key(SchemaScan, table,
                                                     SchemaScan.column_names[at])

C25_RenamedColumnScanned ==
    /\ Served("parse_next") /\ "scan" \in DOMAIN request[1]
    /\ response[1].body.k = "Ok"
    /\ request[1].scan.table = "tu"
    /\ request[1].scan.outs = <<Written("Ref", <<"Id">>)>>
    /\ response[1].body.s.state.state.idx_to_table[1].columns[1].name = "Id"
    /\ response[1].body.s.state.state.idx_to_table[1].columns[1].keys # <<>>

\* The alias prefix that goes with an aggregate function.
alias_prefix(agg_written) ==
    CASE agg_written = "SUM" -> "Sum_" [] agg_written = "MIN" -> "Min_"
      [] agg_written = "MAX" -> "Max_" [] agg_written = "COUNT" -> "Count_"
      [] agg_written = "AVG" -> "Avg_" [] OTHER -> ""

\* C26: an Aggregate with the output <AGG>(<DISTINCT>? <col>) AS <alias> is
\* accepted exactly when AGG is SUM, MIN, MAX, COUNT or AVG, col is a column of
\* the input table, and the alias is the prefix of AGG, then Dist_ exactly when
\* DISTINCT was written, then the column name in any letter case; with any
\* other alias the Aggregate fails.
C26_AggregateAliasGrammar ==
    (Served("parse_next") /\ "aggregate_alias" \in DOMAIN request[1]) =>
        LET out == request[1].aggregate_alias
            input_columns == {"a", "c"}
        IN response[1].body.k = "Ok"
           <=> /\ out.agg \in {"SUM", "MIN", "MAX", "COUNT", "AVG"}
               /\ out.column \in input_columns
               /\ out.alias.prefix = alias_prefix(out.agg)
               /\ out.alias.dist = out.distinct
               /\ to_lowercase(out.alias.name) = to_lowercase(out.column)

C26_DistinctAliasAccepted ==
    /\ Served("parse_next") /\ "aggregate_alias" \in DOMAIN request[1]
    /\ response[1].body.k = "Ok"
    /\ request[1].aggregate_alias.distinct
    /\ request[1].aggregate_alias.agg = "COUNT"
    /\ request[1].aggregate_alias.alias.name = "A"
    /\ response[1].body.s.state.state.idx_to_table[2].columns[1].variant = "Aliased"

\* C27: Filter, Aggregate, Top and TopSort are accepted with one input id and
\* fail with two; Join, Except and Union are accepted with two and fail with
\* one; every id written is in seen.
C27_Arity ==
    (Served("parse_next") /\ "arity" \in DOMAIN request[1]) =>
        LET written == Len(request[1].arity.ids)
            takes == IF request[1].arity.operation
                            \in {"Filter", "Aggregate", "Top", "TopSort"} THEN 1 ELSE 2
        IN /\ written = takes => response[1].body.k = "Ok"
           /\ written # takes => response[1].body.k \notin {"Ok", "Panic"}

C27_TwoIdsRefusedByFilter ==
    /\ Served("parse_next") /\ "arity" \in DOMAIN request[1]
    /\ request[1].arity.operation = "Filter"
    /\ request[1].arity.ids = <<1, 2>>
    /\ response[1].body.k = "Backtrack"
    /\ response[1].body.s.state.state.seen = {1, 2}

\* The columns (0-based) on the referencing and on the referenced side of the
\* foreign keys of SchemaScan.
referencing == {SchemaScan.foreign_keys[j][1] : j \in DOMAIN SchemaScan.foreign_keys}

referenced == {SchemaScan.foreign_keys[j][2] : j \in DOMAIN SchemaScan.foreign_keys}

\* The keys of a scanned column: PrimaryKey{table} first if `primary` holds, then,
\* if `foreign` holds, one ForeignKey for each table owning a referenced column,
\* in ascending order; nothing else.
inherits(held, table, primary, foreign) ==
    /\ \A j \in 1..Len(held) :
          held[j].kind = "PrimaryKey" => j = 1 /\ held[j].table = table
    /\ primary <=> (held # <<>> /\ held[1] = PrimaryKey(table))
    /\ {held[j].table : j \in {k \in 1..Len(held) : held[k].kind = "ForeignKey"}}
          = IF foreign
            THEN {SchemaScan.table_names[SchemaScan.column_to_table[p + 1] + 1] :
                     p \in referenced}
            ELSE {}
    /\ \A j, k \in 1..Len(held) :
          (j < k /\ held[j].kind = "ForeignKey") => str_lt(held[j].table, held[k].table)

ScannedColumns ==
    /\ Served("parse_next") /\ "scan" \in DOMAIN request[1]
    /\ response[1].body.k = "Ok"

\* The place (0-based) in the schema of the i-th column a served Scan lists.
scanned(i) ==
    (CHOOSE c \in columns_of(SchemaScan, request[1].scan.table,
                             request[1].scan.outs[i].column) : TRUE) - 1

\* C28: a scanned column has PrimaryKey{t} if it is a primary key of the schema
\* or the source (referencing) side of a foreign key; the source side of a
\* foreign key has, after it, ForeignKey{T'} for each table T' owning a
\* referenced column of the foreign-key list, without repeats and in order; a
\* column in neither role has no keys.
C28_KeyInheritance ==
    ScannedColumns =>
        \A i \in 1..Len(request[1].scan.outs) :
            inherits(response[1].body.s.state.state.idx_to_table[1].columns[i].keys,
                     request[1].scan.table,
                     contains(SchemaScan.primary_keys, scanned(i))
                         \/ scanned(i) \in referencing,
                     scanned(i) \in referencing)

\* C28, amended: PrimaryKey{t} goes to the primary keys of the schema and to the
\* columns on the referenced side of a foreign key; the ForeignKey entries go to
\* the columns on the referencing side.
C28_KeyInheritanceBySide ==
    ScannedColumns =>
        \A i \in 1..Len(request[1].scan.outs) :
            inherits(response[1].body.s.state.state.idx_to_table[1].columns[i].keys,
                     request[1].scan.table,
                     contains(SchemaScan.primary_keys, scanned(i))
                         \/ scanned(i) \in referenced,
                     scanned(i) \in referencing)

C28_ReferencingColumnScanned ==
    /\ ScannedColumns
    /\ request[1].scan.table = "tu"
    /\ request[1].scan.outs = <<Written("Ref", <<>>)>>
    /\ response[1].body.s.state.state.idx_to_table[1].columns[1].keys
          = <<ForeignKey("t"), ForeignKey("v")>>

\* C29: the classification of the prefixed parser's result on a stream that is
\* not marked complete is never Complete, whatever the text, and that of a whole
\* valid program is Partial.
C29_UnmarkedStreamNeverComplete ==
    (/\ Served("parse_next") /\ request[1].parser.p = "prefixed_qpl"
     /\ request[1].input.partial) =>
        /\ FeedResult(response[1].body) # "Complete"
        /\ "whole" \in DOMAIN request[1] => FeedResult(response[1].body) = "Partial"

\* The connections whose request takes the read guard.
reading(c) == tasks[c].request # <<>> /\ ~writes(tasks[c].request[1])

\* While a request holds the read guard the ServerState is the one it found, and
\* what it has answered so far is what that state gives.
SnapshotIsolation ==
    \A c \in Connections :
        (reading(c) /\ tasks[c].snapshot # <<>>) =>
            /\ c \in shared_state.readers => <<ServerState>> = tasks[c].snapshot
            /\ (tasks[c].request[1].route = "/parse" /\ tasks[c].snapshot[1].tokenizer # <<>>)
                  => \A k \in 1..Len(tasks[c].results) :
                        \E h \in RandomStates :
                            tasks[c].results[k]
                                = feed(triplets(c)[k].inputs, triplets(c)[k].t,
                                       tasks[c].snapshot[1], h)

\* No request that reads is kept from going on by another request that reads:
\* first in line for the read guard while the other holds it, it is let in; and
\* it never needs the tokenizer's Mutex while the other holds it.
ReadersNeverBlock ==
    \A c, d \in Connections :
        (c # d /\ reading(c) /\ reading(d)) =>
            /\ (/\ d \in shared_state.readers /\ at_pc(c, "await")
                /\ Head(shared_state.waiters) = c) => read_permitted(shared_state)
            /\ ~(tokenizer_mutex = <<d>> /\ (at_pc(c, "/parse") \/ at_pc(c, "detokenize")))

\* C30: a /validate or /parse request holds the read lock from its start to its
\* answer and /schema and /tokenizer take the write lock, so that all candidates
\* of a batch are classified against one registry, tokenizer and type-checking
\* flag; and requests that read never block one another.
C30_RegistrySnapshotIsolation == SnapshotIsolation /\ ReadersNeverBlock

====
